---- MODULE Spec2Model ----
(***************************************************************************)
(* Model of the animation engine of algorithm-cartoon (src/src/animation.js)*)
(* : moveBetweenPoints, moveAlongPath and followPath driven by the host's   *)
(* requestAnimationFrame scheduler and performance.now() clock.  Spec has   *)
(* one invocation, PairSpec two invocations in flight at once.              *)
(* CanvasSpec is CanvasAnimationFramework.moveBy (src/src/animation-       *)
(* canvas.js) on top of the engine; SceneSpec is the scene container of the *)
(* base AnimationFramework and ElementSpec the Element, Box and Link       *)
(* objects with a renderer that records the primitives it is asked for.    *)
(* ThrowSpec is the engine with a step callback that throws.  DomSpec and  *)
(* DomMoveSpec are the node map and moveBy of DOMAnimationFramework        *)
(* (src/src/animation-dom.js); UpdateSpec and StyleSpec are the redraw     *)
(* loop and activeDrawStyle of CanvasAnimationFramework.                   *)
(*                                                                         *)
(* Numbers are JavaScript Numbers (binary floating point).  The model keeps *)
(* the rounding of every arithmetic operation of the interpolation, with a  *)
(* significand of Prec bits instead of 53 and no fractional bits.           *)
(***************************************************************************)
EXTENDS Integers, Sequences, FiniteSets, TLC

\* ---------------------------------------------------------------- bounds
Prec == 3          \* significand bits of the model's Number format
MaxTime == 5       \* the clock stops advancing here
FrameLag == 1      \* a frame's timestamp is at most this much before "now"
MaxGap == 2        \* with a callback pending, a frame fires within MaxGap ticks
MaxDuration == 2   \* durations are drawn from 1..MaxDuration
MaxObjects == 2    \* elements constructed in one run
MaxRegistered == 2 \* entries of one registry of the scene container
MaxNodes == 3      \* DOM nodes created in one run
MaxMoves == 2      \* DOMAnimationFramework.moveBy calls in one run
MaxFrames == 4     \* CanvasAnimationFramework.update calls in one run

NA == 0 - 1         \* "argument not passed" in a recorded callback event

\* ------------------------------------------------------- Number arithmetic
RECURSIVE Pow2(_)
Pow2(n) == IF n = 0 THEN 1 ELSE 2 * Pow2(n - 1)

\* distance between neighbouring Numbers around the non-negative rational A/B
RECURSIVE Spacing(_, _, _)
Spacing(A, B, s) == IF A < B * s * Pow2(Prec) THEN s ELSE Spacing(A, B, 2 * s)

\* round the non-negative rational A/B to the nearest Number, ties to even
RoundPos(A, B) ==
    LET s  == Spacing(A, B, 1)
        k  == A \div (B * s)
        r2 == 2 * (A - k * B * s)
    IN  IF r2 < B * s THEN k * s
        ELSE IF r2 > B * s THEN (k + 1) * s
        ELSE IF k % 2 = 0 THEN k * s ELSE (k + 1) * s

\* round the rational A/B (B > 0) to the nearest Number
FRound(A, B) == IF A >= 0 THEN RoundPos(A, B) ELSE 0 - RoundPos(0 - A, B)

\* a value that a Number can hold exactly
Representable(n) == FRound(n, 1) = n

\* the Numbers that are not finite, as codes outside the finite values the
\* model reaches
Infinity == Pow2(20)
NaN == Pow2(20) + 1
IsFiniteNumber(n) == n > 0 - Infinity /\ n < Infinity

\* progress is the pair <<n, d>>: the rational n/d when d > 0, and
\* <<1, 0>> = Infinity, <<-1, 0>> = -Infinity, <<0, 0>> = NaN
NumSub(a, b) == FRound(a - b, 1)

NumMul(a, q) ==
    IF q[2] # 0 THEN FRound(a * q[1], q[2])
    ELSE IF q[1] = 0 \/ a = 0 THEN NaN
    ELSE IF (a > 0) = (q[1] > 0) THEN Infinity
    ELSE 0 - Infinity

NumAdd(a, b) == IF IsFiniteNumber(b) THEN FRound(a + b, 1) ELSE b

\* calculateLinearInterpolation(start, end, progress)
calculateLinearInterpolation(start, end, progress) ==
    NumAdd(start, NumMul(NumSub(end, start), progress))

Sign(n) == IF n > 0 THEN 1 ELSE IF n < 0 THEN 0 - 1 ELSE 0

\* elapsed / duration, duration = <<dn, dd>> = dn/dd with dd > 0
NumDiv(elapsed, duration) ==
    IF duration[1] = 0 THEN <<Sign(elapsed), 0>>
    ELSE IF duration[1] > 0 THEN <<elapsed * duration[2], duration[1]>>
    ELSE <<0 - (elapsed * duration[2]), 0 - duration[1]>>

\* elapsed / duration without the Math.min
ProgressUnclamped(elapsed, duration) == NumDiv(elapsed, duration)

\* Math.min(elapsed / duration, 1): NaN stays NaN
Progress(elapsed, duration) ==
    LET q == NumDiv(elapsed, duration)
    IN  IF q[2] = 0
        THEN IF q[1] > 0 THEN <<1, 1>> ELSE q
        ELSE IF q[1] >= q[2] THEN <<1, 1>> ELSE q

\* progress < 1
LessThanOne(progress) == progress[1] < progress[2]

\* ------------------------------------------------------------------ inputs
Pt(x, y) == [x |-> x, y |-> y]

\* 2^Prec + 2 is a Number, 2^Prec + 1 is not
Big == Pow2(Prec) + 2

PointA == Pt(0, 0)
PointB == Pt(4, 0)
PointC == Pt(4, 4)
PointU == Pt(1, 0)
PointV == Pt(Big, 2)
PointW == Pt(0 - 1, 0)

\* point lists handed to the engine (every coordinate is a Number)
PointLists ==
    { <<>>, <<PointA>>, <<PointA, PointB>>, <<PointA, PointB, PointC>>,
      <<PointA, PointB, PointC, PointU>>, <<PointU, PointV>> }

\* the points argument of moveAlongPath: null, or an array of points
PointArguments ==
    {[isNull |-> TRUE, points |-> <<>>]}
       \cup {[isNull |-> FALSE, points |-> pl] : pl \in PointLists}

Durations == 1 .. MaxDuration

\* zero and a negative duration as well
AnyDurations == (0 - 1) .. MaxDuration
Directions == {"forward", "backward"}

RECURSIVE Reverse(_)
Reverse(s) == IF s = <<>> THEN <<>> ELSE Append(Reverse(Tail(s)), Head(s))

RemoveAt(s, i) == [j \in 1 .. (Len(s) - 1) |-> IF j < i THEN s[j] ELSE s[j + 1]]

\* ------------------------------------------------- Element, Box and Link
\* an id the Element constructor generates ("element_<time>_<random>"): the
\* n-th one, different from every id a caller passes (those are positive)
GeneratedId(n) == 0 - n

\* the fields of an element; width and height are those of a Box, path and
\* the arrows those of a Link, style.borderStyle is borderStyle and
\* style.borderColor is borderColor
Object(kind, id, x, y, visible) ==
    [kind |-> kind, id |-> id, x |-> x, y |-> y, visible |-> visible,
     width |-> 0, height |-> 0, path |-> <<>>, borderStyle |-> "solid",
     borderColor |-> "black", startArrow |-> FALSE, endArrow |-> FALSE]

\* no element (null)
NoObject == Object("none", 0, 0, 0, FALSE)

\* an operation and its arguments: elements by reference, ids by value, and
\* for new Box the width and the height
Call(name, arg) ==
    [name |-> name, arg |-> arg, arg2 |-> 0, lineStyle |-> "",
     startArrow |-> FALSE, endArrow |-> FALSE]

\* no operation yet
NoCall == Call("none", 0)

\* what a constructor gives: the new object, or the error it throws
Constructed(o) == [error |-> "none", object |-> o]
Failed(e) == [error |-> e, object |-> NoObject]

\* new Element(x, y, visible, id); n numbers the generated ids.  a.id = 0 is
\* "no id passed" (null); visible is a boolean in every call of the model
Element(a, n) ==
    IF ~a.xyAreNumbers
    THEN Failed("TypeError")
    ELSE Constructed(Object("Element",
                            IF a.id # 0 THEN a.id ELSE GeneratedId(n),
                            a.x, a.y, a.visible))

\* n <= 0 for a Number n: false when n is NaN
NotPositive(n) == n # NaN /\ n <= 0

\* new Box(x, y, width, height)
Box(a, n) ==
    LET e == Element([x |-> a.x, y |-> a.y, xyAreNumbers |-> a.xyAreNumbers,
                      visible |-> TRUE, id |-> 0], n)
    IN  IF e.error # "none" THEN e
        ELSE IF ~a.sizeIsNumber THEN Failed("TypeError")
        ELSE IF NotPositive(a.width) \/ NotPositive(a.height)
        THEN Failed("RangeError")
        ELSE Constructed([e.object EXCEPT !.kind = "Box",
                                          !.width = a.width,
                                          !.height = a.height])

\* path.getStartPoint() and path.getEndPoint() of a path with points
getStartPoint(pts) == pts[1]
getEndPoint(pts) == pts[Len(pts)]

\* new Link(path, lineStyle, startArrow, endArrow); a.points is path.points.
\* With no point getStartPoint() is undefined and reading its x throws
Link(a, n) ==
    IF ~a.pathIsPath THEN Failed("TypeError")
    ELSE IF ~a.styleIsString THEN Failed("TypeError")
    ELSE IF ~a.arrowsAreBoolean THEN Failed("TypeError")
    ELSE IF a.points = <<>> THEN Failed("TypeError")
    ELSE LET e == Element([x |-> getStartPoint(a.points).x,
                           y |-> getStartPoint(a.points).y,
                           xyAreNumbers |-> TRUE, visible |-> TRUE,
                           id |-> 0], n)
         IN  Constructed([e.object EXCEPT !.kind = "Link",
                                          !.path = a.points,
                                          !.borderStyle = a.lineStyle,
                                          !.startArrow = a.startArrow,
                                          !.endArrow = a.endArrow])

\* element.moveTo(x, y), as a Link inherits it too
moveTo(o, x, y) == [o EXCEPT !.x = x, !.y = y]

\* ------------------------------------------------------------------- state
VARIABLES
    now,              \* performance.now()
    lastTs,           \* timestamp of the latest frame
    frameNo,          \* number of frame callbacks run so far
    pending,          \* callbacks registered with requestAnimationFrame
    op,               \* the engine operation that was invoked
    args,             \* its arguments (callbacks: TRUE when supplied)
    thrown,           \* the error the invocation threw, or "none"
    path,             \* path.points of the caller's Path object
    points,           \* moveAlongPath: points
    totalSegments,    \* moveAlongPath: totalSegments
    segmentDuration,  \* moveAlongPath: segmentDuration = duration / totalSegments
    currentSegment,   \* moveAlongPath: currentSegment
    loopCount,        \* followPath: loopCount
    pathPoints,       \* followPath: pathPoints
    currentDirection, \* followPath: currentDirection
    pathPointsArray,  \* the array object pathPoints refers to
    moves,            \* the moveBetweenPoints calls made so far, in order
    trace,            \* the user callbacks invoked so far, in order
    other,            \* a second, independent invocation (all of the above)
    heap,             \* the Element, Box and Link objects constructed so far
    elements,         \* framework.elements (references into heap)
    temporaryObjects, \* framework.temporaryObjects
    flashingElements, \* framework.flashingElements
    called,           \* the latest operation on an element or the container
    raised,           \* the error that operation threw, or "none"
    created,          \* the Link that operation returned, if it was createLink
    drawn,            \* the renderer primitives that operation invoked
    dom,              \* DOMAnimationFramework: nodes, elementMap, frames
    canvas            \* CanvasAnimationFramework: the redraw loop

vars == <<now, lastTs, frameNo, pending, op, args, thrown, path, points,
          totalSegments, segmentDuration, currentSegment, loopCount,
          pathPoints, currentDirection, pathPointsArray, moves, trace,
          other, heap, elements, temporaryObjects, flashingElements, called,
          raised, created, drawn, dom, canvas>>

\* the variables of the engine, and those of the last operation on the scene
engineVars ==
    <<now, lastTs, frameNo, pending, op, args, thrown, path, points,
      totalSegments, segmentDuration, currentSegment, loopCount, pathPoints,
      currentDirection, pathPointsArray, moves, trace, other>>

sceneVars ==
    <<elements, temporaryObjects, flashingElements, called, raised, created,
      drawn>>

\* the state of the two renderers
backendVars == <<dom, canvas>>

\* new DOMAnimationFramework(rootId): no node, an empty elementMap, and no
\* moveBy in flight
NoDom ==
    [nodes |-> <<>>, elementMap |-> <<>>, frames |-> <<>>, moves |-> <<>>]

\* this.fps = 60
fps == 60

\* new CanvasAnimationFramework(canvasId): lastFrameTime = 0 and fps = 60;
\* no update registered with requestAnimationFrame, no call of update yet,
\* nothing cleared or drawn on the context, whose strokeStyle is the
\* canvas default
NoCanvas ==
    [lastFrameTime |-> 0, fps |-> fps, pending |-> 0, frames |-> 0,
     timestamp |-> 0, clears |-> 0, ops |-> <<>>, strokeStyle |-> "#000000"]

NoArgs ==
    [startPoint |-> PointA, endPoint |-> PointA, points |-> <<>>,
     pointsIsNull |-> FALSE, duration |-> 1, direction |-> "forward", loop |-> FALSE, yoyo |-> FALSE,
     pathIsPath |-> TRUE, updateCallback |-> FALSE,
     stepCallback |-> FALSE, segmentCompleteCallback |-> FALSE,
     completeCallback |-> FALSE, element |-> 0, elementIsElement |-> TRUE,
     throwsAt |-> 0]

\* an invocation that has not been made; id tells the invocations apart
NotInvoked(id) ==
    [id |-> id, op |-> "none", args |-> NoArgs, frame |-> 0, ts |-> 0 - 1,
     now |-> 0, pending |-> <<>>, thrown |-> "none", path |-> <<>>,
     points |-> <<>>, totalSegments |-> 0, segmentDuration |-> <<1, 1>>,
     currentSegment |-> 0, loopCount |-> 0, pathPoints |-> <<>>,
     currentDirection |-> "forward", pathPointsArray |-> "copy",
     moves |-> <<>>, trace |-> <<>>, heap |-> <<>>]

Init ==
    /\ now = 0
    /\ lastTs = -1
    /\ frameNo = 0
    /\ pending = <<>>
    /\ op = "none"
    /\ args = NoArgs
    /\ thrown = "none"
    /\ path = <<>>
    /\ points = <<>>
    /\ totalSegments = 0
    /\ segmentDuration = <<1, 1>>
    /\ currentSegment = 0
    /\ loopCount = 0
    /\ pathPoints = <<>>
    /\ currentDirection = "forward"
    /\ pathPointsArray = "copy"
    /\ moves = <<>>
    /\ trace = <<>>
    /\ other = NotInvoked(2)
    /\ heap = <<>>
    /\ elements = <<>>
    /\ temporaryObjects = <<>>
    /\ flashingElements = <<>>
    /\ called = NoCall
    /\ raised = "none"
    /\ created = NoObject
    /\ drawn = <<>>
    /\ dom = NoDom
    /\ canvas = NoCanvas

\* the state an operation works on, as one record; frame and ts are the
\* number and the timestamp of the frame it runs in (of the latest frame,
\* for a call made between frames)
St(o, a, f) ==
    [id |-> 1, op |-> o, args |-> a, frame |-> f, ts |-> lastTs, now |-> now,
     pending |-> pending,
     thrown |-> thrown, path |-> path, points |-> points,
     totalSegments |-> totalSegments, segmentDuration |-> segmentDuration,
     currentSegment |-> currentSegment, loopCount |-> loopCount,
     pathPoints |-> pathPoints, currentDirection |-> currentDirection,
     pathPointsArray |-> pathPointsArray, moves |-> moves, trace |-> trace,
     heap |-> heap]

\* a second invocation that reads the first one's currentSegment, as if the
\* counter were a field of the framework
OtherStSharedSegment(o, a, f) ==
    [other EXCEPT !.op = o, !.args = a, !.frame = f, !.ts = lastTs,
                  !.now = now, !.pending = pending,
                  !.currentSegment = currentSegment]

\* the same for the second invocation
OtherSt(o, a, f) ==
    [other EXCEPT !.op = o, !.args = a, !.frame = f, !.ts = lastTs,
                  !.now = now, !.pending = pending]

Set(s) ==
    /\ op' = s.op
    /\ args' = s.args
    /\ pending' = s.pending
    /\ thrown' = s.thrown
    /\ path' = s.path
    /\ points' = s.points
    /\ totalSegments' = s.totalSegments
    /\ segmentDuration' = s.segmentDuration
    /\ currentSegment' = s.currentSegment
    /\ loopCount' = s.loopCount
    /\ pathPoints' = s.pathPoints
    /\ currentDirection' = s.currentDirection
    /\ pathPointsArray' = s.pathPointsArray
    /\ moves' = s.moves
    /\ trace' = s.trace
    /\ other' = other
    /\ heap' = s.heap
    /\ UNCHANGED sceneVars
    /\ UNCHANGED backendVars

SetOther(s) ==
    /\ pending' = s.pending
    /\ other' = [s EXCEPT !.frame = 0, !.ts = 0 - 1, !.now = 0,
                          !.pending = <<>>]
    /\ UNCHANGED <<op, args, thrown, path, points, totalSegments,
                   segmentDuration, currentSegment, loopCount, pathPoints,
                   currentDirection, pathPointsArray, moves, trace, heap>>
    /\ UNCHANGED sceneVars
    /\ UNCHANGED backendVars

\* ------------------------------------------------- recorded callback events
StepEvent(s, x, y, stepIndex, segmentIndex, lc, dir, progress) ==
    [ev |-> "step", x |-> x, y |-> y, stepIndex |-> stepIndex,
     segmentIndex |-> segmentIndex, loopCount |-> lc, direction |-> dir,
     progress |-> progress, frame |-> s.frame]

SegmentCompleteEvent(s, segmentIndex) ==
    [ev |-> "segmentComplete", x |-> 0, y |-> 0, stepIndex |-> NA,
     segmentIndex |-> segmentIndex, loopCount |-> NA, direction |-> "none",
     progress |-> <<1, 1>>, frame |-> s.frame]

CompleteEvent(s, lc) ==
    [ev |-> "complete", x |-> 0, y |-> 0, stepIndex |-> NA,
     segmentIndex |-> NA, loopCount |-> lc, direction |-> "none",
     progress |-> <<1, 1>>, frame |-> s.frame]

Log(s, e) == [s EXCEPT !.trace = Append(@, e)]

\* ------------------------------------------------------- moveBetweenPoints
\* the call itself: take the start time, register animate for the next frame
\* a call that reports the start point as step 0 before it returns
moveBetweenPointsEager(s, startPoint, endPoint, duration) ==
    [s EXCEPT !.pending =
        Append(@, [startPoint |-> startPoint, endPoint |-> endPoint,
                   duration |-> duration, startTime |-> s.now,
                   stepIndex |-> 1, owner |-> s.id, since |-> s.ts]),
              !.moves =
        Append(@, [startPoint |-> startPoint, endPoint |-> endPoint,
                   duration |-> duration, startTime |-> s.now]),
              !.trace =
        Append(@, StepEvent(s, startPoint.x, startPoint.y, 0,
                            s.currentSegment, s.loopCount,
                            s.currentDirection, <<0, 1>>))]

\* a call whose stepIndex goes on counting from the steps delivered so far
moveBetweenPointsCounting(s, startPoint, endPoint, duration) ==
    [s EXCEPT !.pending =
        Append(@, [startPoint |-> startPoint, endPoint |-> endPoint,
                   duration |-> duration, startTime |-> s.now,
                   stepIndex |->
                      Len(SelectSeq(s.trace, LAMBDA e : e.ev = "step")),
                   owner |-> s.id, since |-> s.ts]),
              !.moves =
        Append(@, [startPoint |-> startPoint, endPoint |-> endPoint,
                   duration |-> duration, startTime |-> s.now])]

\* a call whose clock goes on from the start of the first move of the walk
moveBetweenPointsSharedClock(s, startPoint, endPoint, duration) ==
    LET startTime == IF s.moves = <<>> THEN s.now ELSE s.moves[1].startTime
    IN  [s EXCEPT !.pending =
            Append(@, [startPoint |-> startPoint, endPoint |-> endPoint,
                       duration |-> duration, startTime |-> startTime,
                       stepIndex |-> 0, owner |-> s.id, since |-> s.ts]),
                  !.moves =
            Append(@, [startPoint |-> startPoint, endPoint |-> endPoint,
                       duration |-> duration, startTime |-> startTime])]

\* (owner: the invocation whose closure this is; since: the frame during or
\* after which it was registered)
moveBetweenPoints(s, startPoint, endPoint, duration) ==
    [s EXCEPT !.pending =
        Append(@, [startPoint |-> startPoint, endPoint |-> endPoint,
                   duration |-> duration, startTime |-> s.now,
                   stepIndex |-> 0, owner |-> s.id, since |-> s.ts]),
              !.moves =
        Append(@, [startPoint |-> startPoint, endPoint |-> endPoint,
                   duration |-> duration, startTime |-> s.now])]

\* a step callback of the caller has been invoked: it returns, or it throws
\* on its n-th invocation (args.throwsAt = n; 0 for a callback that returns
\* every time)
CallerCallback(s) ==
    IF /\ s.args.throwsAt > 0
       /\ Len(SelectSeq(s.trace, LAMBDA e : e.ev = "step")) = s.args.throwsAt
    THEN [s EXCEPT !.thrown = "Error"]
    ELSE s

\* ------------------------------------------ CanvasAnimationFramework.moveBy
\* this.render(): neither CanvasAnimationFramework nor AnimationFramework
\* has a render method, so the call throws "this.render is not a function"
render(s) == [s EXCEPT !.thrown = "TypeError"]

\* the update callback moveBy hands to followPath:
\* element.moveTo(x, y); this.render()
MoveByUpdateCallback(s, x, y) ==
    render([s EXCEPT !.heap[s.args.element] = moveTo(@, x, y)])

\* the operations that run on top of followPath
ViaFollowPath(s) == s.op \in {"followPath", "moveBy"}

\* ------------------------------------------------------------- followPath
\* the step callback followPath hands to moveAlongPath; it calls the
\* updateCallback followPath was given
UpdateCallback(s, x, y, stepIndex, segmentIndex, progress) ==
    LET s1 == Log(s, StepEvent(s, x, y, stepIndex, segmentIndex, s.loopCount,
                               s.currentDirection, progress))
    IN  IF s.op = "moveBy" THEN MoveByUpdateCallback(s1, x, y)
        ELSE CallerCallback(s1)

\* ---------------------------------------------------------- moveAlongPath
\* the step callback moveAlongPath hands to moveBetweenPoints
SegmentStepCallback(s, x, y, stepIndex, progress) ==
    IF ViaFollowPath(s)
    THEN UpdateCallback(s, x, y, stepIndex, s.currentSegment, progress)
    ELSE IF s.args.stepCallback
         THEN CallerCallback(
                  Log(s, StepEvent(s, x, y, stepIndex, s.currentSegment, NA,
                                   "none", progress)))
         ELSE s

RECURSIVE executeAnimation(_)

\* a loopCount that is never advanced, and one that advances by two
LoopCountStuck(count) == count
LoopCountSkipped(count) == count + 2

\* loopCount++
NextLoopCount(count) == count + 1

\* a loop that only continues when yoyo is on
LoopOnlyWithYoyo(s) == s.args.loop /\ s.args.yoyo

\* if (loop)
ShouldLoop(s) == s.args.loop

\* a direction that is never switched
DirectionKept(dir) == dir

\* currentDirection === 'forward' ? 'backward' : 'forward'
FlipDirection(dir) == IF dir = "forward" THEN "backward" ELSE "forward"

\* a working sequence that is never reversed
PointsKept(pts) == pts

\* pathPoints.reverse()
ReversePoints(pts) == Reverse(pts)

\* Array.prototype.reverse on the array pathPoints refers to. It works in
\* place: the array moveAlongPath holds as points is the same object, and so
\* is path.points when pathPoints refers to the caller's array
ReverseInPlace(s) ==
    [s EXCEPT !.pathPoints = ReversePoints(@),
              !.points = ReversePoints(s.pathPoints),
              !.path = IF s.pathPointsArray = "path.points"
                       THEN ReversePoints(@) ELSE @]

\* a completion callback that switches the direction whenever yoyo is on,
\* looping or not
FollowCompleteCallbackYoyoFirst(s) ==
    LET s1 == [s EXCEPT !.loopCount = NextLoopCount(@)]
        s2 == IF s1.args.yoyo
              THEN [ReverseInPlace(s1) EXCEPT
                      !.currentDirection = FlipDirection(@)]
              ELSE s1
    IN  IF ShouldLoop(s1)
        THEN executeAnimation(s2)
        ELSE IF s1.args.completeCallback
             THEN Log(s2, CompleteEvent(s2, s2.loopCount))
             ELSE s2

\* the completion callback followPath hands to moveAlongPath
FollowCompleteCallback(s) ==
    LET s1 == [s EXCEPT !.loopCount = NextLoopCount(@)]
        s2 == IF s1.args.yoyo
              THEN [ReverseInPlace(s1) EXCEPT
                      !.currentDirection = FlipDirection(@)]
              ELSE s1
    IN  IF ShouldLoop(s1)
        THEN executeAnimation(s2)
        ELSE IF s1.args.completeCallback
             THEN Log(s1, CompleteEvent(s1, s1.loopCount))
             ELSE s1

\* moveAlongPath's completeCallback, when it is not null
WalkCompleteCallback(s) ==
    IF ViaFollowPath(s)
    THEN FollowCompleteCallback(s)
    ELSE IF s.args.completeCallback
         THEN Log(s, CompleteEvent(s, NA))
         ELSE s

\* a walker that takes the last segment for done before walking it
moveNextSegmentEarly(s) ==
    IF s.currentSegment >= s.totalSegments - 1
    THEN WalkCompleteCallback(s)
    ELSE moveBetweenPoints(s, s.points[s.currentSegment + 1],
                           s.points[s.currentSegment + 2], s.segmentDuration)

\* points[k] of the source is points[k + 1] here: sequences start at 1
moveNextSegment(s) ==
    IF s.currentSegment >= s.totalSegments
    THEN WalkCompleteCallback(s)
    ELSE moveBetweenPoints(s, s.points[s.currentSegment + 1],
                           s.points[s.currentSegment + 2], s.segmentDuration)

\* a currentSegment that skips a segment, and one that never advances
SegmentSkipped(segment) == segment + 2
SegmentStuck(segment) == segment

\* currentSegment++
NextSegment(segment) == segment + 1

\* a walk that goes on to the next segment only when it has a
\* segment-completion callback to call
SegmentCompleteCallbackRequired(s) ==
    IF s.op = "moveAlongPath" /\ ~s.args.segmentCompleteCallback
    THEN s
    ELSE moveNextSegment(
             [(IF s.op = "moveAlongPath"
               THEN Log(s, SegmentCompleteEvent(s, s.currentSegment))
               ELSE s)
              EXCEPT !.currentSegment = NextSegment(@)])

\* the completion callback moveAlongPath hands to moveBetweenPoints
SegmentCompleteCallback(s) ==
    LET s1 == IF s.op = "moveAlongPath" /\ s.args.segmentCompleteCallback
              THEN Log(s, SegmentCompleteEvent(s, s.currentSegment))
              ELSE s
    IN  moveNextSegment([s1 EXCEPT !.currentSegment = NextSegment(@)])

\* every segment given the whole duration
WholeDuration(duration, segments) == <<duration, 1>>

\* duration / totalSegments
SegmentDuration(duration, segments) == <<duration, segments>>

\* !points, for the points argument of this moveAlongPath call (followPath
\* always passes its own array)
PointsMissing(s) == s.op = "moveAlongPath" /\ s.args.pointsIsNull

\* a degenerate path that returns without calling completeCallback
moveAlongPathSilent(s, pts, duration) ==
    IF PointsMissing(s) \/ Len(pts) < 2
    THEN s
    ELSE moveNextSegment(
             [s EXCEPT !.points = pts,
                       !.totalSegments = Len(pts) - 1,
                       !.segmentDuration =
                          SegmentDuration(duration, Len(pts) - 1),
                       !.currentSegment = 0])

moveAlongPath(s, pts, duration) ==
    IF PointsMissing(s) \/ Len(pts) < 2
    THEN WalkCompleteCallback(s)
    ELSE moveNextSegment(
             [s EXCEPT !.points = pts,
                       !.totalSegments = Len(pts) - 1,
                       !.segmentDuration =
                          SegmentDuration(duration, Len(pts) - 1),
                       !.currentSegment = 0])

executeAnimation(s) == moveAlongPath(s, s.pathPoints, s.args.duration)

\* a direction argument that is ignored
DirectionIgnored(direction) == TRUE

\* direction === 'forward'
IsForward(direction) == direction = "forward"

\* pathPoints made to refer to the caller's array itself
PointsAliased(s) ==
    [s EXCEPT !.pathPoints = s.path, !.pathPointsArray = "path.points"]

\* [...points]: a new array with the elements of path.points
PointsCopied(s) ==
    [s EXCEPT !.pathPoints = s.path, !.pathPointsArray = "copy"]

\* a followPath that does not check for the update callback
followPathUnchecked(s) ==
    IF ~s.args.pathIsPath
    THEN [s EXCEPT !.thrown = "TypeError"]
    ELSE IF Len(s.path) < 2
    THEN [s EXCEPT !.thrown = "TypeError"]
    ELSE executeAnimation(
             [(IF IsForward(s.args.direction)
               THEN PointsCopied(s)
               ELSE ReverseInPlace(PointsCopied(s)))
              EXCEPT !.loopCount = 0,
                     !.currentDirection = s.args.direction])

followPath(s) ==
    IF ~s.args.pathIsPath
    THEN [s EXCEPT !.thrown = "TypeError"]
    ELSE IF Len(s.path) < 2
    THEN [s EXCEPT !.thrown = "TypeError"]
    ELSE IF ~s.args.updateCallback
    THEN [s EXCEPT !.thrown = "TypeError"]
    ELSE executeAnimation(
             [(IF IsForward(s.args.direction)
               THEN PointsCopied(s)
               ELSE ReverseInPlace(PointsCopied(s)))
              EXCEPT !.loopCount = 0,
                     !.currentDirection = s.args.direction])

\* CanvasAnimationFramework.moveBy(element, path, duration, completeCallback)
\* (duration is a Number in every call of the model)
moveBy(s) ==
    IF ~s.args.elementIsElement \/ ~s.args.pathIsPath
    THEN [s EXCEPT !.thrown = "TypeError"]
    ELSE IF s.args.duration <= 0
    THEN [s EXCEPT !.thrown = "TypeError"]
    ELSE followPath(s)

\* ------------------------------------------ moveBetweenPoints: one frame
\* stepCallback / completeCallback as moveBetweenPoints received them
HasStepCallback(s) ==
    IF s.op = "moveBetweenPoints" THEN s.args.stepCallback ELSE TRUE

StepCallback(s, x, y, stepIndex, progress) ==
    IF s.op = "moveBetweenPoints"
    THEN CallerCallback(
             Log(s, StepEvent(s, x, y, stepIndex, NA, NA, "none", progress)))
    ELSE SegmentStepCallback(s, x, y, stepIndex, progress)

CompleteCallback(s) ==
    IF s.op = "moveBetweenPoints"
    THEN IF s.args.completeCallback THEN Log(s, CompleteEvent(s, NA)) ELSE s
    ELSE SegmentCompleteCallback(s)

\* a stepIndex that is never advanced
StepIndexStuck(stepIndex) == stepIndex

\* stepIndex++
NextStepIndex(stepIndex) == stepIndex + 1

\* an animate that catches what the step callback throws and carries on
animateCatching(s, i, timestamp) ==
    LET cl       == s.pending[i]
        s0       == [s EXCEPT !.pending = RemoveAt(@, i)]
        elapsed  == timestamp - cl.startTime
        progress == Progress(elapsed, cl.duration)
        x == calculateLinearInterpolation(cl.startPoint.x, cl.endPoint.x,
                                          progress)
        y == calculateLinearInterpolation(cl.startPoint.y, cl.endPoint.y,
                                          progress)
        s1 == IF HasStepCallback(s0)
              THEN StepCallback(s0, x, y, cl.stepIndex, progress)
              ELSE s0
        cl1 == IF HasStepCallback(s0)
               THEN [cl EXCEPT !.stepIndex = NextStepIndex(@)]
               ELSE cl
    IN  IF LessThanOne(progress)
        THEN [s1 EXCEPT !.pending = Append(@, [cl1 EXCEPT !.since = s.ts])]
        ELSE CompleteCallback(s1)

\* an animate that registers itself again on the terminal step as well
animateAlwaysRegisters(s, i, timestamp) ==
    LET cl       == s.pending[i]
        s0       == [s EXCEPT !.pending = RemoveAt(@, i)]
        elapsed  == timestamp - cl.startTime
        progress == Progress(elapsed, cl.duration)
        x == calculateLinearInterpolation(cl.startPoint.x, cl.endPoint.x,
                                          progress)
        y == calculateLinearInterpolation(cl.startPoint.y, cl.endPoint.y,
                                          progress)
        s1 == IF HasStepCallback(s0)
              THEN StepCallback(s0, x, y, cl.stepIndex, progress)
              ELSE s0
        cl1 == IF HasStepCallback(s0)
               THEN [cl EXCEPT !.stepIndex = NextStepIndex(@)]
               ELSE cl
        s2 == [s1 EXCEPT !.pending = Append(@, [cl1 EXCEPT !.since = s.ts])]
    IN  IF s1.thrown # "none" THEN s1
        ELSE IF LessThanOne(progress) THEN s2 ELSE CompleteCallback(s2)

\* animate(timestamp) of the i-th pending callback; an error thrown by the
\* step callback leaves animate before it registers itself again or calls
\* completeCallback
animate(s, i, timestamp) ==
    LET cl       == s.pending[i]
        s0       == [s EXCEPT !.pending = RemoveAt(@, i)]
        elapsed  == timestamp - cl.startTime
        progress == Progress(elapsed, cl.duration)
        x == calculateLinearInterpolation(cl.startPoint.x, cl.endPoint.x,
                                          progress)
        y == calculateLinearInterpolation(cl.startPoint.y, cl.endPoint.y,
                                          progress)
        s1 == IF HasStepCallback(s0)
              THEN StepCallback(s0, x, y, cl.stepIndex, progress)
              ELSE s0
        cl1 == IF HasStepCallback(s0)
               THEN [cl EXCEPT !.stepIndex = NextStepIndex(@)]
               ELSE cl
    IN  IF s1.thrown # "none"
        THEN s1
        ELSE IF LessThanOne(progress)
        THEN [s1 EXCEPT !.pending = Append(@, [cl1 EXCEPT !.since = s.ts])]
        ELSE CompleteCallback(s1)

\* ----------------------------------------------------------------- actions
CallMoveBetweenPoints(startPoint, endPoint, duration, stepCb, completeCb) ==
    /\ op = "none"
    /\ LET a == [NoArgs EXCEPT !.startPoint = startPoint,
                               !.endPoint = endPoint,
                               !.duration = duration,
                               !.stepCallback = stepCb,
                               !.completeCallback = completeCb]
       IN  Set(moveBetweenPoints(St("moveBetweenPoints", a, 0), startPoint,
                                 endPoint, <<duration, 1>>))
    /\ UNCHANGED <<now, lastTs, frameNo>>

CallMoveAlongPath(pts, duration, stepCb, segmentCb, completeCb) ==
    /\ op = "none"
    /\ LET a == [NoArgs EXCEPT !.points = pts.points,
                               !.pointsIsNull = pts.isNull,
                               !.duration = duration,
                               !.stepCallback = stepCb,
                               !.segmentCompleteCallback = segmentCb,
                               !.completeCallback = completeCb]
       IN  Set(moveAlongPath(St("moveAlongPath", a, 0), pts.points,
                             duration))
    /\ UNCHANGED <<now, lastTs, frameNo>>

CallFollowPath(isPath, pts, updateCb, direction, duration, completeCb, loop, yoyo) ==
    /\ op = "none"
    /\ LET a == [NoArgs EXCEPT !.pathIsPath = isPath,
                               !.points = pts,
                               !.updateCallback = updateCb,
                               !.direction = direction,
                               !.duration = duration,
                               !.completeCallback = completeCb,
                               !.loop = loop,
                               !.yoyo = yoyo]
       IN  Set(followPath([St("followPath", a, 0) EXCEPT !.path = pts]))
    /\ UNCHANGED <<now, lastTs, frameNo>>

\* the host runs one pending frame callback with the frame's timestamp
\* (callbacks registered before a frame may run in it, with its timestamp;
\* one registered during a frame runs in a later frame)
FrameTime(i, timestamp) ==
    /\ i \in DOMAIN pending
    /\ timestamp >= lastTs
    /\ timestamp > pending[i].since
    /\ timestamp >= now - FrameLag
    /\ timestamp <= now

Frame(i, timestamp) ==
    /\ FrameTime(i, timestamp)
    /\ pending[i].owner = 1
    /\ Set(animate([St(op, args, frameNo + 1) EXCEPT !.ts = timestamp], i,
                   timestamp))
    /\ lastTs' = timestamp
    /\ frameNo' = frameNo + 1
    /\ UNCHANGED now

\* the same for a callback of the second invocation
FrameOther(i, timestamp) ==
    /\ FrameTime(i, timestamp)
    /\ pending[i].owner = 2
    /\ SetOther(animate([OtherSt(other.op, other.args, frameNo + 1)
                            EXCEPT !.ts = timestamp], i, timestamp))
    /\ lastTs' = timestamp
    /\ frameNo' = frameNo + 1
    /\ UNCHANGED now

\* time passes
Tick ==
    /\ now < MaxTime
    /\ op = "none" => now < FrameLag
    /\ pending # <<>> => now - lastTs < MaxGap
    /\ now' = now + 1
    /\ UNCHANGED <<lastTs, frameNo, pending, op, args, thrown, path, points,
                   totalSegments, segmentDuration, currentSegment, loopCount,
                   pathPoints, currentDirection, pathPointsArray, moves,
                   trace, other, heap>>
    /\ UNCHANGED sceneVars
    /\ UNCHANGED backendVars

\* the start and end points handed to moveBetweenPoints
Segments == {pl \in PointLists : Len(pl) = 2} \cup {<<PointW, PointV>>}

Next ==
    \/ \E pl \in Segments, d \in AnyDurations, stepCb, completeCb \in BOOLEAN :
          CallMoveBetweenPoints(pl[1], pl[2], d, stepCb, completeCb)
    \/ \E pts \in PointArguments, d \in Durations,
          stepCb, segmentCb, completeCb \in BOOLEAN :
          CallMoveAlongPath(pts, d, stepCb, segmentCb, completeCb)
    \/ \E isPath \in BOOLEAN, pl \in PointLists, updateCb \in BOOLEAN,
          dir \in Directions, d \in Durations, completeCb \in BOOLEAN,
          loop \in BOOLEAN, yoyo \in BOOLEAN :
          CallFollowPath(isPath, pl, updateCb, dir, d, completeCb, loop, yoyo)
    \/ \E i \in DOMAIN pending, ts \in (now - FrameLag) .. now : Frame(i, ts)
    \/ Tick

Spec == Init /\ [][Next]_vars

\* ------------------------------------- two invocations in flight at once
\* the second invocation is made while the first one is in flight
CallOtherMoveAlongPath(pts, duration, stepCb, segmentCb, completeCb) ==
    /\ pending # <<>>
    /\ other.op = "none"
    /\ LET a == [NoArgs EXCEPT !.points = pts.points,
                               !.pointsIsNull = pts.isNull,
                               !.duration = duration,
                               !.stepCallback = stepCb,
                               !.segmentCompleteCallback = segmentCb,
                               !.completeCallback = completeCb]
       IN  SetOther(moveAlongPath(OtherSt("moveAlongPath", a, frameNo),
                                  pts.points, duration))
    /\ UNCHANGED <<now, lastTs, frameNo>>

CallOtherFollowPath(isPath, pts, updateCb, direction, duration, completeCb, loop, yoyo) ==
    /\ pending # <<>>
    /\ other.op = "none"
    /\ LET a == [NoArgs EXCEPT !.pathIsPath = isPath,
                               !.points = pts,
                               !.updateCallback = updateCb,
                               !.direction = direction,
                               !.duration = duration,
                               !.completeCallback = completeCb,
                               !.loop = loop,
                               !.yoyo = yoyo]
       IN  SetOther(followPath([OtherSt("followPath", a, frameNo)
                                  EXCEPT !.path = pts]))
    /\ UNCHANGED <<now, lastTs, frameNo>>

\* the inputs of two invocations in flight at once
PairDurations == {1, MaxDuration}
PairLists == {<<PointA, PointB>>, <<PointA, PointB, PointC>>}
PairArguments == {[isNull |-> FALSE, points |-> pl] : pl \in PairLists}

\* followPath arguments of the second invocation: valid ones with every
\* duration, and the invalid ones
PairFollowArguments ==
    {a \in [isPath : BOOLEAN, points : {<<PointA>>, <<PointA, PointB>>},
            updateCb : BOOLEAN, duration : PairDurations] :
        \/ a.isPath /\ Len(a.points) = 2 /\ a.updateCb
        \/ a.duration = 1}

NextPair ==
    \/ \E d \in PairDurations :
          CallMoveAlongPath([isNull |-> FALSE,
                             points |-> <<PointA, PointB, PointC>>],
                            d, TRUE, TRUE, TRUE)
    \/ \E d \in PairDurations :
          CallFollowPath(TRUE, <<PointA, PointB>>, TRUE, "forward", d, TRUE,
                         FALSE, FALSE)
    \/ \E pts \in PairArguments, d \in PairDurations :
          CallOtherMoveAlongPath(pts, d, TRUE, TRUE, TRUE)
    \/ \E a \in PairFollowArguments :
          CallOtherFollowPath(a.isPath, a.points, a.updateCb, "backward",
                              a.duration, TRUE, FALSE, FALSE)
    \/ \E i \in DOMAIN pending, ts \in (now - FrameLag) .. now : Frame(i, ts)
    \/ \E i \in DOMAIN pending, ts \in (now - FrameLag) .. now :
          FrameOther(i, ts)
    \/ Tick

PairSpec == Init /\ [][NextPair]_vars

\* -------------------------------------------------- the scene container
\* the framework and the elements an operation works on, as one record; the
\* outcome of the operation is collected in raised, created and drawn
Fw ==
    [heap |-> heap, elements |-> elements,
     temporaryObjects |-> temporaryObjects,
     flashingElements |-> flashingElements, raised |-> "none",
     created |-> NoObject, drawn |-> <<>>]

SetFw(f, call) ==
    /\ heap' = f.heap
    /\ elements' = f.elements
    /\ temporaryObjects' = f.temporaryObjects
    /\ flashingElements' = f.flashingElements
    /\ called' = call
    /\ raised' = f.raised
    /\ created' = f.created
    /\ drawn' = f.drawn
    /\ UNCHANGED engineVars
    /\ UNCHANGED backendVars

\* the caller keeps the object a constructor gives; an error is thrown to it
New(f, r) ==
    IF r.error = "none"
    THEN [f EXCEPT !.heap = Append(@, r.object)]
    ELSE [f EXCEPT !.raised = r.error]

\* this.elements.push(element)
addElement(f, e) == [f EXCEPT !.elements = Append(@, e)]

\* a removeElement that takes the element out of flashingElements as well
removeElementAndFlash(f, id) ==
    [f EXCEPT !.elements = SelectSeq(@, LAMBDA e : f.heap[e].id # id),
              !.flashingElements =
                  SelectSeq(@, LAMBDA e : f.heap[e].id # id)]

\* this.elements = this.elements.filter(e => e.id !== id)
removeElement(f, id) ==
    [f EXCEPT !.elements = SelectSeq(@, LAMBDA e : f.heap[e].id # id)]

\* a createTemporaryElement that registers the element as well
createTemporaryElementRegistered(f, e) ==
    [f EXCEPT !.temporaryObjects = Append(@, e), !.elements = Append(@, e)]

\* this.temporaryObjects.push(element)
createTemporaryElement(f, e) == [f EXCEPT !.temporaryObjects = Append(@, e)]

\* a removeTemporaryElement that takes out the first occurrence only
removeTemporaryElementOnce(f, e) ==
    LET first == {i \in DOMAIN f.temporaryObjects :
                     /\ f.temporaryObjects[i] = e
                     /\ \A j \in 1 .. (i - 1) : f.temporaryObjects[j] # e}
    IN  [f EXCEPT !.temporaryObjects =
            IF first = {} THEN @ ELSE RemoveAt(@, CHOOSE i \in first : TRUE)]

\* this.temporaryObjects = this.temporaryObjects.filter(e => e !== element)
removeTemporaryElement(f, e) ==
    [f EXCEPT !.temporaryObjects = SelectSeq(@, LAMBDA r : r # e)]

\* this.flashingElements.push(element)
addFlash(f, e) == [f EXCEPT !.flashingElements = Append(@, e)]

\* this.flashingElements = this.flashingElements.filter(e => e !== element)
removeFlash(f, e) ==
    [f EXCEPT !.flashingElements = SelectSeq(@, LAMBDA r : r # e)]

\* element.width and element.height: undefined unless the element is a Box
Width(o) == IF o.kind = "Box" THEN o.width ELSE NaN
Height(o) == IF o.kind = "Box" THEN o.height ELSE NaN

\* a corner taken for the centre
Corner(x, size) == x

\* x + size / 2 in Numbers; undefined / 2 is NaN, and so is a sum with NaN
Centre(x, size) ==
    IF x = NaN \/ size = NaN THEN NaN ELSE NumAdd(x, FRound(size, 2))

\* createLink(element1, element2, lineStyle, startArrow, endArrow); the
\* Path constructor accepts every pair of Numbers
createLink(f, e1, e2, a) ==
    LET o1 == f.heap[e1]
        o2 == f.heap[e2]
        pts == <<Pt(Centre(o1.x, Width(o1)), Centre(o1.y, Height(o1))),
                 Pt(Centre(o2.x, Width(o2)), Centre(o2.y, Height(o2)))>>
        r == Link([pathIsPath |-> TRUE, points |-> pts,
                   lineStyle |-> a.lineStyle,
                   styleIsString |-> a.styleIsString,
                   startArrow |-> a.startArrow, endArrow |-> a.endArrow,
                   arrowsAreBoolean |-> a.arrowsAreBoolean],
                  Len(f.heap) + 1)
    IN  IF r.error = "none"
        THEN [f EXCEPT !.created = r.object]
        ELSE [f EXCEPT !.raised = r.error]

\* an abstract operation that returns without an error
AbstractOperationSilent(f, name) == f

\* moveBy, drawBox, drawLink, activeDrawStyle and update of the base
\* AnimationFramework: throw new Error(...)
AbstractOperation(f, name) == [f EXCEPT !.raised = "Error"]

AbstractOperations ==
    {"moveBy", "drawBox", "drawLink", "activeDrawStyle", "update"}

\* ------------------------------------------------------------------ draw
\* drawBox and drawLink of a renderer that records what it is asked to draw
drawBox(f, e) ==
    [f EXCEPT !.drawn = Append(@, [primitive |-> "drawBox", element |-> e])]

drawLink(f, e) ==
    [f EXCEPT !.drawn = Append(@, [primitive |-> "drawLink", element |-> e])]

\* Element.draw: nothing is drawn
ElementDraw(f, e) == f

\* a Box.draw that does not look at visible
BoxDrawAlways(f, e) == drawBox(f, e)

\* Box.draw(framework)
BoxDraw(f, e) == IF ~f.heap[e].visible THEN f ELSE drawBox(f, e)

\* Link.draw(framework)
LinkDraw(f, e) == IF ~f.heap[e].visible THEN f ELSE drawLink(f, e)

\* element.draw(framework), by the class of the element
draw(f, e) ==
    IF f.heap[e].kind = "Box" THEN BoxDraw(f, e)
    ELSE IF f.heap[e].kind = "Link" THEN LinkDraw(f, e)
    ELSE ElementDraw(f, e)

\* ------------------------------------------ inputs of the scene operations
ElementArguments ==
    {[x |-> 0, y |-> 0, xyAreNumbers |-> TRUE, visible |-> TRUE, id |-> 0],
     [x |-> 0, y |-> 0, xyAreNumbers |-> TRUE, visible |-> TRUE, id |-> 1],
     [x |-> 0, y |-> 0, xyAreNumbers |-> FALSE, visible |-> TRUE, id |-> 0]}

BoxOf(x, y, width, height) ==
    [x |-> x, y |-> y, width |-> width, height |-> height,
     xyAreNumbers |-> TRUE, sizeIsNumber |-> TRUE]

\* two boxes that do not overlap, sizes that are zero, negative and NaN,
\* and arguments that are not Numbers
BoxArguments ==
    {BoxOf(0, 0, 2, 2), BoxOf(4, 4, 2, 2), BoxOf(0, 0, 0, 2),
     BoxOf(0, 0, 2, 0 - 1), BoxOf(0, 0, NaN, 2),
     [BoxOf(0, 0, 2, 2) EXCEPT !.xyAreNumbers = FALSE],
     [BoxOf(0, 0, 2, 2) EXCEPT !.sizeIsNumber = FALSE]}

OptionsOf(lineStyle, startArrow, endArrow) ==
    [lineStyle |-> lineStyle, styleIsString |-> TRUE,
     startArrow |-> startArrow, endArrow |-> endArrow,
     arrowsAreBoolean |-> TRUE]

\* line style and arrow flags, and a style that is not a string
LinkOptions ==
    {OptionsOf("solid", FALSE, FALSE), OptionsOf("dashed", TRUE, FALSE),
     [OptionsOf("solid", FALSE, FALSE) EXCEPT !.styleIsString = FALSE]}

\* the arguments of new Link: two valid ones, a path that is not a Path,
\* a Path without points, and a style and flags of the wrong type
LinkArguments ==
    {[isPath |-> TRUE, points |-> <<PointA, PointB>>,
      options |-> OptionsOf("solid", FALSE, FALSE)],
     [isPath |-> TRUE, points |-> <<PointC, PointA>>,
      options |-> OptionsOf("dashed", TRUE, FALSE)],
     [isPath |-> FALSE, points |-> <<>>,
      options |-> OptionsOf("solid", FALSE, FALSE)],
     [isPath |-> TRUE, points |-> <<>>,
      options |-> OptionsOf("solid", FALSE, FALSE)],
     [isPath |-> TRUE, points |-> <<PointA, PointB>>,
      options |-> [OptionsOf("solid", FALSE, FALSE)
                      EXCEPT !.styleIsString = FALSE]],
     [isPath |-> TRUE, points |-> <<PointA, PointB>>,
      options |-> [OptionsOf("solid", FALSE, FALSE)
                      EXCEPT !.arrowsAreBoolean = FALSE]]}

\* every id an element of the model can have, and one that none has
Ids == {1, 2} \cup {GeneratedId(n) : n \in 1 .. MaxObjects}

\* -------------------------------------------- actions on the scene
\* the number of entries of a registry that are the element e
Occurrences(registry, e) ==
    Cardinality({i \in DOMAIN registry : registry[i] = e})

CallNewElement(a) ==
    /\ Len(heap) < MaxObjects
    /\ SetFw(New(Fw, Element(a, Len(heap) + 1)), Call("new Element", 0))

CallNewBox(a) ==
    /\ Len(heap) < MaxObjects
    /\ SetFw(New(Fw, Box(a, Len(heap) + 1)),
             [Call("new Box", a.width) EXCEPT !.arg2 = a.height])

CallNewLink(isPath, pts, options) ==
    /\ Len(heap) < MaxObjects
    /\ SetFw(New(Fw, Link([pathIsPath |-> isPath, points |-> pts,
                           lineStyle |-> options.lineStyle,
                           styleIsString |-> options.styleIsString,
                           startArrow |-> options.startArrow,
                           endArrow |-> options.endArrow,
                           arrowsAreBoolean |-> options.arrowsAreBoolean],
                          Len(heap) + 1)),
             Call("new Link", 0))

CallAddElement(e) ==
    /\ e \in DOMAIN heap
    /\ Len(elements) < MaxRegistered
    /\ SetFw(addElement(Fw, e), Call("addElement", e))

CallRemoveElement(id) ==
    SetFw(removeElement(Fw, id), Call("removeElement", id))

CallCreateTemporaryElement(e) ==
    /\ e \in DOMAIN heap
    /\ Len(temporaryObjects) < MaxRegistered
    /\ SetFw(createTemporaryElement(Fw, e), Call("createTemporaryElement", e))

\* (arg2 of the two removals: the occurrences of e before the call)
CallRemoveTemporaryElement(e) ==
    /\ e \in DOMAIN heap
    /\ SetFw(removeTemporaryElement(Fw, e),
             [Call("removeTemporaryElement", e) EXCEPT
                 !.arg2 = Occurrences(temporaryObjects, e)])

CallAddFlash(e) ==
    /\ e \in DOMAIN heap
    /\ Len(flashingElements) < MaxRegistered
    /\ SetFw(addFlash(Fw, e), Call("addFlash", e))

CallRemoveFlash(e) ==
    /\ e \in DOMAIN heap
    /\ SetFw(removeFlash(Fw, e),
             [Call("removeFlash", e) EXCEPT
                 !.arg2 = Occurrences(flashingElements, e)])

CallCreateLink(e1, e2, options) ==
    /\ e1 \in DOMAIN heap
    /\ e2 \in DOMAIN heap
    /\ SetFw(createLink(Fw, e1, e2, options),
             [Call("createLink", e1) EXCEPT
                 !.arg2 = e2, !.lineStyle = options.lineStyle,
                 !.startArrow = options.startArrow,
                 !.endArrow = options.endArrow])

CallAbstractOperation(name) ==
    SetFw(AbstractOperation(Fw, name), Call(name, 0))

CallMoveTo(e, x, y) ==
    /\ e \in DOMAIN heap
    /\ SetFw([Fw EXCEPT !.heap[e] = moveTo(@, x, y)], Call("moveTo", e))

\* element.visible = visible
CallSetVisible(e, visible) ==
    /\ e \in DOMAIN heap
    /\ SetFw([Fw EXCEPT !.heap[e].visible = visible], Call("visible", e))

CallDraw(e) ==
    /\ e \in DOMAIN heap
    /\ SetFw(draw(Fw, e), Call("draw", e))

\* the scene container of the base AnimationFramework
NextScene ==
    \/ \E a \in ElementArguments : CallNewElement(a)
    \/ \E e \in 1 .. MaxObjects : CallAddElement(e)
    \/ \E id \in Ids : CallRemoveElement(id)
    \/ \E e \in 1 .. MaxObjects : CallCreateTemporaryElement(e)
    \/ \E e \in 1 .. MaxObjects : CallRemoveTemporaryElement(e)
    \/ \E e \in 1 .. MaxObjects : CallAddFlash(e)
    \/ \E e \in 1 .. MaxObjects : CallRemoveFlash(e)
    \/ \E name \in AbstractOperations : CallAbstractOperation(name)

SceneSpec == Init /\ [][NextScene]_vars

\* elements, and a renderer that records the primitives
NextElement ==
    \/ \E a \in BoxArguments : CallNewBox(a)
    \/ \E a \in LinkArguments : CallNewLink(a.isPath, a.points, a.options)
    \/ \E e1, e2 \in 1 .. MaxObjects, options \in LinkOptions :
          CallCreateLink(e1, e2, options)
    \/ \E e \in 1 .. MaxObjects : CallMoveTo(e, PointC.x, PointC.y)
    \/ \E e \in 1 .. MaxObjects, visible \in BOOLEAN :
          CallSetVisible(e, visible)
    \/ \E e \in 1 .. MaxObjects : CallDraw(e)

ElementSpec == Init /\ [][NextElement]_vars

\* ------------------------------------------------------- moveBy on a canvas
CallMoveBy(e, isElement, isPath, pts, duration, completeCb) ==
    /\ op = "none"
    /\ e \in DOMAIN heap
    /\ LET a == [NoArgs EXCEPT !.element = e,
                               !.elementIsElement = isElement,
                               !.pathIsPath = isPath,
                               !.points = pts,
                               !.updateCallback = TRUE,
                               !.duration = duration,
                               !.completeCallback = completeCb]
       IN  Set(moveBy([St("moveBy", a, 0) EXCEPT !.path = pts]))
    /\ UNCHANGED <<now, lastTs, frameNo>>

NextCanvas ==
    \/ \E a \in ElementArguments : CallNewElement(a)
    \/ \E e \in 1 .. MaxObjects, isElement, isPath, completeCb \in BOOLEAN,
          pl \in PointLists, d \in AnyDurations :
          CallMoveBy(e, isElement, isPath, pl, d, completeCb)
    \/ \E i \in DOMAIN pending, ts \in (now - FrameLag) .. now : Frame(i, ts)
    \/ Tick

CanvasSpec == Init /\ [][NextCanvas]_vars

\* ------------------------------------------- step callbacks that throw
\* the invocations on which the caller's step callback throws
ThrowsAt == 1 .. 3

\* the engine's operations, invoked with every callback supplied and a step
\* callback that throws on its n-th invocation
CallThrowingMoveBetweenPoints(startPoint, endPoint, duration, n) ==
    /\ op = "none"
    /\ LET a == [NoArgs EXCEPT !.startPoint = startPoint,
                               !.endPoint = endPoint,
                               !.duration = duration,
                               !.stepCallback = TRUE,
                               !.completeCallback = TRUE,
                               !.throwsAt = n]
       IN  Set(moveBetweenPoints(St("moveBetweenPoints", a, 0), startPoint,
                                 endPoint, <<duration, 1>>))
    /\ UNCHANGED <<now, lastTs, frameNo>>

CallThrowingMoveAlongPath(pts, duration, n) ==
    /\ op = "none"
    /\ LET a == [NoArgs EXCEPT !.points = pts,
                               !.duration = duration,
                               !.stepCallback = TRUE,
                               !.segmentCompleteCallback = TRUE,
                               !.completeCallback = TRUE,
                               !.throwsAt = n]
       IN  Set(moveAlongPath(St("moveAlongPath", a, 0), pts, duration))
    /\ UNCHANGED <<now, lastTs, frameNo>>

CallThrowingFollowPath(pts, duration, loop, n) ==
    /\ op = "none"
    /\ LET a == [NoArgs EXCEPT !.points = pts,
                               !.updateCallback = TRUE,
                               !.duration = duration,
                               !.completeCallback = TRUE,
                               !.loop = loop,
                               !.throwsAt = n]
       IN  Set(followPath([St("followPath", a, 0) EXCEPT !.path = pts]))
    /\ UNCHANGED <<now, lastTs, frameNo>>

\* the walks a throwing callback is handed to
ThrowingLists == {pl \in PointLists : Len(pl) >= 2}

NextThrow ==
    \/ \E pl \in Segments, d \in Durations, n \in ThrowsAt :
          CallThrowingMoveBetweenPoints(pl[1], pl[2], d, n)
    \/ \E pl \in ThrowingLists, d \in Durations, n \in ThrowsAt :
          CallThrowingMoveAlongPath(pl, d, n)
    \/ \E pl \in ThrowingLists, d \in Durations, loop \in BOOLEAN,
          n \in ThrowsAt :
          CallThrowingFollowPath(pl, d, loop, n)
    \/ \E a \in ElementArguments : CallNewElement(a)
    \/ \E e \in 1 .. MaxObjects, pl \in ThrowingLists, d \in Durations :
          CallMoveBy(e, TRUE, TRUE, pl, d, TRUE)
    \/ \E i \in DOMAIN pending, ts \in (now - FrameLag) .. now : Frame(i, ts)
    \/ Tick

ThrowSpec == Init /\ [][NextThrow]_vars

\* ------------------------------------------------ DOMAnimationFramework
\* the framework, its scene and its DOM, as the record an operation works on
Dm == [f |-> Fw, d |-> dom]

SetDom(m, call) ==
    /\ heap' = m.f.heap
    /\ elements' = m.f.elements
    /\ temporaryObjects' = m.f.temporaryObjects
    /\ flashingElements' = m.f.flashingElements
    /\ called' = call
    /\ raised' = m.f.raised
    /\ created' = m.f.created
    /\ drawn' = m.f.drawn
    /\ dom' = m.d
    /\ UNCHANGED canvas
    /\ UNCHANGED <<frameNo, pending, op, args, thrown, path, points,
                   totalSegments, segmentDuration, currentSegment, loopCount,
                   pathPoints, currentDirection, pathPointsArray, moves,
                   trace, other>>

\* this.elementMap.get(id): the node, or 0 for undefined
elementMapGet(d, id) ==
    LET entries == {i \in DOMAIN d.elementMap : d.elementMap[i].key = id}
    IN  IF entries = {} THEN 0
        ELSE d.elementMap[CHOOSE i \in entries : TRUE].node

\* this.elementMap.set(id, node): the entry of the key is replaced, a new
\* key is added at the end
elementMapSet(d, id, node) ==
    IF elementMapGet(d, id) # 0
    THEN [d EXCEPT !.elementMap =
             [i \in DOMAIN @ |->
                 IF @[i].key = id THEN [key |-> id, node |-> node] ELSE @[i]]]
    ELSE [d EXCEPT !.elementMap = Append(@, [key |-> id, node |-> node])]

\* this.elementMap.delete(id)
elementMapDelete(d, id) ==
    [d EXCEPT !.elementMap = SelectSeq(@, LAMBDA entry : entry.key # id)]

\* applyStyle(domElement, element): position, display and the flashing
\* class of the node
applyStyle(m, node, e) ==
    [m EXCEPT !.d.nodes[node] =
        [@ EXCEPT !.left = m.f.heap[e].x, !.top = m.f.heap[e].y,
                  !.display = m.f.heap[e].visible,
                  !.flashing = Occurrences(m.f.flashingElements, e) > 0]]

\* document.createElement(type): a node that has no parent yet
NewNode ==
    [left |-> 0, top |-> 0, display |-> TRUE, flashing |-> FALSE,
     parent |-> "none"]

\* a createDOMElement that does not enter the node into elementMap
createDOMElementUnmapped(m, e) ==
    LET node == Len(m.d.nodes) + 1
        m1   == applyStyle([m EXCEPT !.d.nodes = Append(@, NewNode)], node, e)
    IN  [m1 EXCEPT !.d.nodes[node].parent = "root"]

\* createDOMElement(type, element); the node it returns is the last of
\* d.nodes
createDOMElement(m, e) ==
    LET node == Len(m.d.nodes) + 1
        m1   == applyStyle([m EXCEPT !.d.nodes = Append(@, NewNode)], node, e)
        m2   == [m1 EXCEPT !.d.nodes[node].parent = "root"]
    IN  [m2 EXCEPT !.d = elementMapSet(@, m.f.heap[e].id, node)]

\* DOMAnimationFramework.drawBox(box)
DomDrawBox(m, e) ==
    LET node == elementMapGet(m.d, m.f.heap[e].id)
    IN  IF node = 0
        THEN LET m1 == createDOMElement(m, e)
             IN  applyStyle(m1, Len(m1.d.nodes), e)
        ELSE applyStyle(m, node, e)

\* DOMAnimationFramework.drawLink(link)
DomDrawLink(m, e) ==
    LET node == elementMapGet(m.d, m.f.heap[e].id)
    IN  IF node = 0
        THEN LET m1 == createDOMElement(m, e)
             IN  applyStyle(m1, Len(m1.d.nodes), e)
        ELSE applyStyle(m, node, e)

\* DOMAnimationFramework.removeElement(elementId)
DomRemoveElement(m, id) ==
    LET node == elementMapGet(m.d, id)
        m1   == IF node # 0 /\ m.d.nodes[node].parent # "none"
                THEN [m EXCEPT !.d.nodes[node].parent = "none"]
                ELSE m
    IN  [m1 EXCEPT !.d = elementMapDelete(@, id),
                   !.f = removeElement(@, id)]

\* the record of a moveBy call: what animate captured, and the progress and
\* the position of its latest step (none yet)
Started(cl) ==
    [element |-> cl.element, startX |-> cl.startX, startY |-> cl.startY,
     startPoint |-> cl.startPoint, endPoint |-> cl.endPoint,
     duration |-> cl.duration, startTime |-> cl.startTime, steps |-> 0,
     progress |-> <<0, 1>>, x |-> cl.startX, y |-> cl.startY]

\* a step of the move has set the position for a progress
Stepped(mv, pos, progress) ==
    [mv EXCEPT !.steps = 1, !.progress = progress, !.x = pos.x, !.y = pos.y]

\* a moveBy that takes the start position from the path, not the element
DomMoveByFromPath(m, e, pts, duration, time) ==
    LET cl == [move |-> Len(m.d.moves) + 1, element |-> e,
               startX |-> getStartPoint(pts).x,
               startY |-> getStartPoint(pts).y,
               startPoint |-> getStartPoint(pts),
               endPoint |-> getEndPoint(pts), duration |-> duration,
               startTime |-> time.now, since |-> time.ts]
    IN  [m EXCEPT !.d.frames = Append(@, cl),
                  !.d.moves = Append(@, Started(cl))]

\* DOMAnimationFramework.moveBy(element, path, duration): the start and end
\* point of the path, the position of the element and the start time are
\* taken at the call, and animate is registered for the next frame
DomMoveBy(m, e, pts, duration, time) ==
    LET cl == [move |-> Len(m.d.moves) + 1, element |-> e,
               startX |-> m.f.heap[e].x, startY |-> m.f.heap[e].y,
               startPoint |-> getStartPoint(pts),
               endPoint |-> getEndPoint(pts), duration |-> duration,
               startTime |-> time.now, since |-> time.ts]
    IN  [m EXCEPT !.d.frames = Append(@, cl),
                  !.d.moves = Append(@, Started(cl))]

\* the position animate computes for a progress:
\* startX + (endPoint.x - startPoint.x) * progress, and the same for y
DomPosition(cl, progress) ==
    Pt(NumAdd(cl.startX,
              NumMul(NumSub(cl.endPoint.x, cl.startPoint.x), progress)),
       NumAdd(cl.startY,
              NumMul(NumSub(cl.endPoint.y, cl.startPoint.y), progress)))

\* an animate that does not register itself again
DomAnimateOnce(m, i, timestamp) ==
    LET cl       == m.d.frames[i]
        elapsed  == timestamp - cl.startTime
        progress == Progress(elapsed, <<cl.duration, 1>>)
        pos      == DomPosition(cl, progress)
        m1 == [m EXCEPT !.d.frames = RemoveAt(@, i),
                        !.f.heap[cl.element] = moveTo(@, pos.x, pos.y),
                        !.d.moves[cl.move] = Stepped(@, pos, progress)]
        node == elementMapGet(m1.d, m1.f.heap[cl.element].id)
    IN  IF node # 0
        THEN [m1 EXCEPT !.d.nodes[node].left = pos.x,
                        !.d.nodes[node].top = pos.y]
        ELSE m1

\* animate(timestamp) of the i-th pending callback of moveBy
DomAnimate(m, i, timestamp) ==
    LET cl       == m.d.frames[i]
        elapsed  == timestamp - cl.startTime
        progress == Progress(elapsed, <<cl.duration, 1>>)
        pos      == DomPosition(cl, progress)
        m1 == [m EXCEPT !.d.frames = RemoveAt(@, i),
                        !.f.heap[cl.element] = moveTo(@, pos.x, pos.y),
                        !.d.moves[cl.move] = Stepped(@, pos, progress)]
        node == elementMapGet(m1.d, m1.f.heap[cl.element].id)
        m2 == IF node # 0
              THEN [m1 EXCEPT !.d.nodes[node].left = pos.x,
                              !.d.nodes[node].top = pos.y]
              ELSE m1
    IN  IF LessThanOne(progress)
        THEN [m2 EXCEPT !.d.frames =
                 Append(@, [cl EXCEPT !.since = timestamp])]
        ELSE m2

\* ------------------------------------- actions on the DOM framework
CallDomDrawBox(e) ==
    /\ e \in DOMAIN heap
    /\ elementMapGet(dom, heap[e].id) = 0 => Len(dom.nodes) < MaxNodes
    /\ SetDom(DomDrawBox(Dm, e), Call("drawBox", e))
    /\ UNCHANGED <<now, lastTs>>

CallDomDrawLink(e) ==
    /\ e \in DOMAIN heap
    /\ heap[e].kind = "Link"
    /\ elementMapGet(dom, heap[e].id) = 0 => Len(dom.nodes) < MaxNodes
    /\ SetDom(DomDrawLink(Dm, e), Call("drawLink", e))
    /\ UNCHANGED <<now, lastTs>>

CallDomRemoveElement(id) ==
    /\ SetDom(DomRemoveElement(Dm, id), Call("removeElement", id))
    /\ UNCHANGED <<now, lastTs>>

CallDomMoveBy(e, pts, duration) ==
    /\ e \in DOMAIN heap
    /\ Len(dom.moves) < MaxMoves
    /\ SetDom(DomMoveBy(Dm, e, pts, duration, [now |-> now, ts |-> lastTs]),
              Call("moveBy", e))
    /\ UNCHANGED <<now, lastTs>>

\* the host runs one pending callback of moveBy with the frame's timestamp
DomFrame(i, timestamp) ==
    /\ i \in DOMAIN dom.frames
    /\ timestamp >= lastTs
    /\ timestamp > dom.frames[i].since
    /\ timestamp >= now - FrameLag
    /\ timestamp <= now
    /\ SetDom(DomAnimate(Dm, i, timestamp),
              Call("animate", dom.frames[i].move))
    /\ lastTs' = timestamp
    /\ UNCHANGED now

\* time passes
DomTick ==
    /\ now < MaxTime
    /\ dom.moves = <<>> => now < FrameLag
    /\ dom.frames # <<>> => now - lastTs < MaxGap
    /\ now' = now + 1
    /\ UNCHANGED <<lastTs, frameNo, pending, op, args, thrown, path, points,
                   totalSegments, segmentDuration, currentSegment, loopCount,
                   pathPoints, currentDirection, pathPointsArray, moves,
                   trace, other, heap>>
    /\ UNCHANGED sceneVars
    /\ UNCHANGED backendVars

\* the boxes and the paths of the moves: a box at the start of the second
\* path and one elsewhere; a path whose end - start is not a Number, and a
\* path of three points
DomBoxes == {BoxOf(0, 0, 2, 2), BoxOf(4, 4, 2, 2)}
DomPaths == {<<PointU, PointV>>, <<PointA, PointB, PointC>>}

\* the node map: elements (two of them can have the same id) and a link are
\* registered, drawn and removed
NextDom ==
    \/ \E a \in ElementArguments : CallNewElement(a)
    \/ CallNewLink(TRUE, <<PointA, PointB>>, OptionsOf("solid", FALSE, FALSE))
    \/ \E e \in 1 .. MaxObjects : CallAddElement(e)
    \/ \E e \in 1 .. MaxObjects : CallDomDrawBox(e)
    \/ \E e \in 1 .. MaxObjects : CallDomDrawLink(e)
    \/ \E id \in Ids : CallDomRemoveElement(id)

DomSpec == Init /\ [][NextDom]_vars

\* moveBy: a box is placed and drawn, and then moved, two moves at a time
NextDomMove ==
    \/ \E a \in DomBoxes : heap = <<>> /\ CallNewBox(a)
    \/ \E e \in 1 .. MaxObjects :
          dom.moves = <<>> /\ CallMoveTo(e, PointU.x, PointU.y)
    \/ \E e \in 1 .. MaxObjects : dom.moves = <<>> /\ CallDomDrawBox(e)
    \/ \E e \in 1 .. MaxObjects, pl \in DomPaths, d \in Durations :
          CallDomMoveBy(e, pl, d)
    \/ \E i \in DOMAIN dom.frames, ts \in (now - FrameLag) .. now :
          DomFrame(i, ts)
    \/ DomTick

DomMoveSpec == Init /\ [][NextDomMove]_vars

\* ---------------------------------------------- CanvasAnimationFramework
\* the framework, its scene and its canvas, as the record an operation works
\* on
Cv == [f |-> Fw, c |-> canvas]

SetCanvas(m, call) ==
    /\ heap' = m.f.heap
    /\ elements' = m.f.elements
    /\ temporaryObjects' = m.f.temporaryObjects
    /\ flashingElements' = m.f.flashingElements
    /\ called' = call
    /\ raised' = m.f.raised
    /\ created' = m.f.created
    /\ drawn' = m.f.drawn
    /\ canvas' = m.c
    /\ UNCHANGED dom
    /\ UNCHANGED engineVars

\* element.style, as far as the canvas reads it
StyleOf(o) == [borderColor |-> o.borderColor]

\* const flashInterval = 500
flashInterval == 500

\* Math.floor((Date.now() % (2 * flashInterval)) / flashInterval)
flashState(date) == (date % (2 * flashInterval)) \div flashInterval

\* an activeDrawStyle that does not look at flashingElements
activeDrawStyleNoFlash(m, e, style, date) ==
    [m EXCEPT !.c.strokeStyle = style.borderColor]

\* activeDrawStyle(element, style), with date the value of Date.now()
activeDrawStyle(m, e, style, date) ==
    LET borderColor ==
            IF Occurrences(m.f.flashingElements, e) > 0
            THEN IF flashState(date) = 0 THEN "red" ELSE style.borderColor
            ELSE style.borderColor
    IN  [m EXCEPT !.c.strokeStyle = borderColor]

\* a call on the context, with the strokeStyle it is made with
ContextCall(m, name, e) ==
    [m EXCEPT !.c.ops = Append(@, [op |-> name, element |-> e,
                                   strokeStyle |-> m.c.strokeStyle])]

\* CanvasAnimationFramework.drawBox(box)
CanvasDrawBox(m, e, date) ==
    IF ~m.f.heap[e].visible THEN m
    ELSE ContextCall(activeDrawStyle(m, e, StyleOf(m.f.heap[e]), date),
                     "stroke", e)

\* CanvasAnimationFramework.drawLink(link)
CanvasDrawLink(m, e, date) ==
    IF ~m.f.heap[e].visible THEN m
    ELSE ContextCall(activeDrawStyle(m, e, StyleOf(m.f.heap[e]), date),
                     "stroke", e)

\* element.draw(this), by the class of the element
CanvasDraw(m, e, date) ==
    IF ~m.f.heap[e].visible THEN m
    ELSE IF m.f.heap[e].kind = "Box" THEN CanvasDrawBox(m, e, date)
    ELSE IF m.f.heap[e].kind = "Link" THEN CanvasDrawLink(m, e, date)
    ELSE m

\* list.forEach(element => { this.activeDrawStyle(element, element.style);
\* element.draw(this); })
RECURSIVE DrawEach(_, _, _)
DrawEach(m, list, date) ==
    IF list = <<>> THEN m
    ELSE LET e  == Head(list)
             m1 == ContextCall(
                       activeDrawStyle(m, e, StyleOf(m.f.heap[e]), date),
                       "activeDrawStyle", e)
         IN  DrawEach(CanvasDraw(m1, e, date), Tail(list), date)

\* context.clearRect(...): the calls on the context are counted from here
clearRect(m) ==
    [m EXCEPT !.c.clears = @ + 1,
              !.c.ops = <<[op |-> "clearRect", element |-> 0,
                           strokeStyle |-> m.c.strokeStyle]>>]

\* doUpdate(): Date.now() is date throughout the call
doUpdate(m, date) ==
    DrawEach(DrawEach(clearRect(m), m.f.elements, date),
             m.f.temporaryObjects, date)

\* requestAnimationFrame(this.update.bind(this))
requestUpdate(m) == [m EXCEPT !.c.pending = @ + 1]

\* timestamp - this.lastFrameTime < this.frameInterval, with frameInterval
\* = 1000 / fps
Throttled(c, timestamp) == (timestamp - c.lastFrameTime) * c.fps < 1000

\* an update that registers no next update when it is throttled
updateThrottledStops(m, timestamp, date) ==
    IF Throttled(m.c, timestamp)
    THEN m
    ELSE requestUpdate(doUpdate([m EXCEPT !.c.lastFrameTime = timestamp],
                                date))

\* update(timestamp)
update(m, timestamp, date) ==
    IF Throttled(m.c, timestamp)
    THEN requestUpdate(m)
    ELSE requestUpdate(doUpdate([m EXCEPT !.c.lastFrameTime = timestamp],
                                date))

\* setFPS(fps)
setFPS(m, value) == [m EXCEPT !.c.fps = value]

\* ------------------------------------ actions on the canvas framework
\* framework.update(): timestamp is performance.now()
CallUpdate(timestamp, date) ==
    /\ canvas.frames = 0
    /\ LET m == update(Cv, timestamp, date)
       IN  SetCanvas([m EXCEPT !.c.frames = 1, !.c.timestamp = timestamp],
                     [Call("update", timestamp) EXCEPT !.arg2 = date])

\* the host runs the registered update, gap ms after the latest one
UpdateFrame(gap, date) ==
    /\ canvas.pending > 0
    /\ canvas.frames < MaxFrames
    /\ LET timestamp == canvas.timestamp + gap
           m == update([Cv EXCEPT !.c.pending = @ - 1], timestamp, date)
       IN  SetCanvas([m EXCEPT !.c.frames = @ + 1,
                               !.c.timestamp = timestamp],
                     [Call("update", timestamp) EXCEPT !.arg2 = date])

CallActiveDrawStyle(e, date) ==
    /\ e \in DOMAIN heap
    /\ SetCanvas(activeDrawStyle(Cv, e, StyleOf(heap[e]), date),
                 [Call("activeDrawStyle", e) EXCEPT !.arg2 = date])

\* element.style.borderColor = colour
CallSetBorderColor(e, colour) ==
    /\ e \in DOMAIN heap
    /\ SetCanvas([Cv EXCEPT !.f.heap[e].borderColor = colour],
                 Call("borderColor", e))

CallSetFPS(value) ==
    /\ canvas.fps # value
    /\ SetCanvas(setFPS(Cv, value), Call("setFPS", value))

\* the first timestamps, the gaps between frames, the frame rates, the
\* border colours and the values of Date.now()
FirstTimestamps == {10, 20}
FrameGaps == {8, 17}
FpsValues == {60, 100}
Colours == {"black", "blue"}
Dates == {0, 499, 500, 999, 1000, 1499, 1500}
FrameDates == {1000, 1500}

\* the redraw loop: a scene is set up, update is called once and the host
\* runs the registered update frame after frame; elements flash and stop
\* flashing
NextUpdate ==
    \/ \E a \in DomBoxes : heap = <<>> /\ canvas.frames = 0 /\ CallNewBox(a)
    \/ Len(heap) = 1 /\ canvas.frames = 0
          /\ CallNewLink(TRUE, <<PointA, PointB>>,
                         OptionsOf("solid", FALSE, FALSE))
    \/ \E e \in 1 .. MaxObjects :
          /\ canvas.frames = 0 /\ temporaryObjects = <<>>
          /\ Occurrences(elements, e) = 0
          /\ CallAddElement(e)
    \/ \E e \in 1 .. MaxObjects :
          /\ canvas.frames = 0 /\ temporaryObjects = <<>>
          /\ CallCreateTemporaryElement(e)
    \/ \E e \in 1 .. MaxObjects :
          /\ canvas.frames = 0 /\ e \in DOMAIN heap /\ heap[e].visible
          /\ CallSetVisible(e, FALSE)
    \/ \E value \in FpsValues : CallSetFPS(value)
    \/ \E e \in 1 .. MaxObjects : flashingElements = <<>> /\ CallAddFlash(e)
    \/ \E e \in 1 .. MaxObjects :
          Occurrences(flashingElements, e) > 0 /\ CallRemoveFlash(e)
    \/ \E ts \in FirstTimestamps, date \in FrameDates : CallUpdate(ts, date)
    \/ \E gap \in FrameGaps, date \in FrameDates : UpdateFrame(gap, date)

UpdateSpec == Init /\ [][NextUpdate]_vars

\* the border colour: boxes are created, recoloured, flashed and unflashed,
\* and activeDrawStyle is called at any time
NextStyle ==
    \/ \E a \in DomBoxes : CallNewBox(a)
    \/ \E e \in 1 .. MaxObjects, colour \in Colours :
          CallSetBorderColor(e, colour)
    \/ \E e \in 1 .. MaxObjects : CallAddFlash(e)
    \/ \E e \in 1 .. MaxObjects : CallRemoveFlash(e)
    \/ \E e \in 1 .. MaxObjects, date \in Dates : CallActiveDrawStyle(e, date)

StyleSpec == Init /\ [][NextStyle]_vars

\* a frame callback runs: within Next this is exactly a Frame step, and it is
\* enabled exactly when Frame is (timestamp = now is then possible)
FrameRuns ==
    /\ pending # <<>>
    /\ lastTs < now
    /\ frameNo' = frameNo + 1

\* the clock keeps advancing and the host keeps running pending frame
\* callbacks
FairSpec == Spec /\ WF_vars(Tick) /\ WF_frameNo(FrameRuns)

TypeOK ==
    /\ now \in 0 .. MaxTime
    /\ op \in {"none", "moveBetweenPoints", "moveAlongPath", "followPath",
              "moveBy"}
    /\ thrown \in {"none", "TypeError", "Error"}
    /\ Len(pending) <= 2

\* --------------------------------------------------------- trace helpers
IsStep(e) == e.ev = "step"
IsSegmentComplete(e) == e.ev = "segmentComplete"
IsComplete(e) == e.ev = "complete"
One == <<1, 1>>

Steps == SelectSeq(trace, IsStep)
SegmentCompletes == SelectSeq(trace, IsSegmentComplete)
Completes == SelectSeq(trace, IsComplete)

Finished == op # "none" /\ thrown = "none" /\ pending = <<>>

\* a terminal step (progress = 1) is directly followed, in the same frame, by
\* the only completion; nothing follows the completion
TerminalStepThenCompletion ==
    /\ Len(Completes) <= 1
    /\ (Finished /\ args.completeCallback) => Len(Completes) = 1
    /\ \A i \in DOMAIN trace :
          /\ IsComplete(trace[i]) =>
                /\ i = Len(trace)
                /\ pending = <<>>
                /\ args.stepCallback =>
                      /\ i > 1
                      /\ IsStep(trace[i - 1])
                      /\ trace[i - 1].progress = One
                      /\ trace[i - 1].frame = trace[i].frame
          /\ (IsStep(trace[i]) /\ trace[i].progress = One) =>
                /\ pending = <<>>
                /\ args.completeCallback =>
                      (i = Len(trace) - 1 /\ IsComplete(trace[i + 1]))
                /\ ~args.completeCallback => i = Len(trace)
          /\ (IsStep(trace[i]) /\ i < Len(trace) /\ IsStep(trace[i + 1])) =>
                /\ LessThanOne(trace[i].progress)
                /\ trace[i].frame < trace[i + 1].frame

MoveBetweenPointsCase == op = "moveBetweenPoints" /\ args.duration > 0

RoundedEnd(start, end) == NumAdd(start, NumSub(end, start))

C2_StepIndexConsecutive ==
    (op = "moveBetweenPoints" /\ args.stepCallback) =>
       /\ \A k \in DOMAIN Steps : Steps[k].stepIndex = k - 1
       /\ \A i \in DOMAIN pending : pending[i].stepIndex = Len(Steps)

C2_Witness ==
    /\ op = "moveBetweenPoints"
    /\ args.stepCallback
    /\ Len(Steps) >= 3
    /\ Steps[3].stepIndex = 2

WalkCase ==
    op = "moveAlongPath" /\ Len(args.points) >= 2 /\ args.duration > 0

\* C3: a moveAlongPath over N >= 1 segments invokes the segment-completion
\* callback exactly N times, with 0, 1, ..., N-1 in this order, all of them
\* before the overall completion callback.
C3_SegmentCompletionsInOrder ==
    (WalkCase /\ args.segmentCompleteCallback) =>
       /\ Len(SegmentCompletes) <= Len(args.points) - 1
       /\ Len(SegmentCompletes) = currentSegment
       /\ \A k \in DOMAIN SegmentCompletes :
             SegmentCompletes[k].segmentIndex = k - 1
       /\ Finished => Len(SegmentCompletes) = Len(args.points) - 1
       /\ \A i \in DOMAIN trace :
             IsComplete(trace[i]) =>
                /\ Len(SegmentCompletes) = Len(args.points) - 1
                /\ \A j \in DOMAIN trace :
                      IsSegmentComplete(trace[j]) => j < i

C3_Witness ==
    /\ WalkCase
    /\ Len(args.points) = 4
    /\ Len(SegmentCompletes) = 3
    /\ SegmentCompletes[1].segmentIndex = 0
    /\ SegmentCompletes[2].segmentIndex = 1
    /\ SegmentCompletes[3].segmentIndex = 2
    /\ Len(Completes) = 1
    /\ SegmentCompletes[1].frame < SegmentCompletes[2].frame
    /\ SegmentCompletes[2].frame < SegmentCompletes[3].frame

\* C4: moveAlongPath invokes the overall completion callback exactly once,
\* only after the completion of the final segment N-1, and no step or
\* segment completion of the invocation follows it.
C4_WalkCompletesOnceAtEnd ==
    (WalkCase /\ args.completeCallback) =>
       /\ Len(Completes) <= 1
       /\ Finished => Len(Completes) = 1
       /\ \A i \in DOMAIN trace :
             IsComplete(trace[i]) =>
                /\ i = Len(trace)
                /\ pending = <<>>
                /\ currentSegment = Len(args.points) - 1
                /\ args.segmentCompleteCallback =>
                      /\ i > 1
                      /\ IsSegmentComplete(trace[i - 1])
                      /\ trace[i - 1].segmentIndex = Len(args.points) - 2
                      /\ trace[i - 1].frame = trace[i].frame
                /\ (args.stepCallback /\ ~args.segmentCompleteCallback) =>
                      /\ i > 1
                      /\ IsStep(trace[i - 1])
                      /\ trace[i - 1].segmentIndex = Len(args.points) - 2
                      /\ trace[i - 1].progress = One
                      /\ trace[i - 1].frame = trace[i].frame

C4_Witness ==
    /\ WalkCase
    /\ Len(args.points) = 3
    /\ args.segmentCompleteCallback
    /\ Len(trace) >= 5
    /\ IsComplete(trace[Len(trace)])
    /\ IsSegmentComplete(trace[Len(trace) - 1])
    /\ trace[Len(trace) - 1].segmentIndex = 1

\* C5: the segments of a moveAlongPath run strictly in order: a step of
\* segment i+1 comes only after the completion of segment i (and after its
\* terminal step), no step of segment i comes after that completion, and the
\* segmentIndex of the steps never decreases.
C5_SegmentsStrictlyInOrder ==
    (WalkCase /\ args.stepCallback) =>
       \A j \in DOMAIN trace :
          IsStep(trace[j]) =>
             /\ trace[j].segmentIndex \in 0 .. (Len(args.points) - 2)
             /\ \A i \in 1 .. (j - 1) :
                   /\ IsStep(trace[i]) =>
                         trace[i].segmentIndex <= trace[j].segmentIndex
                   /\ IsSegmentComplete(trace[i]) =>
                         trace[i].segmentIndex < trace[j].segmentIndex
             /\ \A i \in (j + 1) .. Len(trace) :
                   IsSegmentComplete(trace[i]) =>
                      trace[j].segmentIndex <= trace[i].segmentIndex
             /\ trace[j].segmentIndex > 0 =>
                   /\ \E i \in 1 .. (j - 1) :
                         /\ IsStep(trace[i])
                         /\ trace[i].segmentIndex = trace[j].segmentIndex - 1
                         /\ trace[i].progress = One
                   /\ args.segmentCompleteCallback =>
                         \E i \in 1 .. (j - 1) :
                            /\ IsSegmentComplete(trace[i])
                            /\ trace[i].segmentIndex =
                                  trace[j].segmentIndex - 1

C5_Witness ==
    /\ WalkCase
    /\ args.stepCallback
    /\ args.segmentCompleteCallback
    /\ \E i, j, k \in DOMAIN trace :
          /\ i < j /\ j < k
          /\ IsStep(trace[i]) /\ trace[i].segmentIndex = 0
          /\ IsSegmentComplete(trace[j]) /\ trace[j].segmentIndex = 0
          /\ IsStep(trace[k]) /\ trace[k].segmentIndex = 1
          /\ LessThanOne(trace[k].progress)

\* ----------------------------------------------------------- followPath
FollowCase == op = "followPath" /\ thrown = "none" /\ args.duration > 0

\* the last segment of the followed path
LastSegment == Len(args.points) - 2

\* a step that ends a traversal: the terminal step of the last segment
EndsTraversal(e) ==
    IsStep(e) /\ e.progress = One /\ e.segmentIndex = LastSegment

\* number of traversals ended by the first n recorded callbacks
TraversalsEndedBy(n) ==
    Cardinality({i \in 1 .. n : EndsTraversal(trace[i])})

\* C6: followPath with loop = false invokes the completion callback exactly
\* once, with loopCount = 1, after exactly one full traversal of all
\* segments; afterwards no update callback is delivered and no frame is
\* scheduled.
C6_NoLoopCompletesOnceWithOne ==
    (FollowCase /\ ~args.loop) =>
       /\ Len(Completes) <= 1
       /\ (Finished /\ args.completeCallback) => Len(Completes) = 1
       /\ Finished => (loopCount = 1 /\ TraversalsEndedBy(Len(trace)) = 1)
       /\ \A i \in DOMAIN trace : IsStep(trace[i]) => trace[i].loopCount = 0
       /\ \A i \in DOMAIN trace :
             IsComplete(trace[i]) =>
                /\ trace[i].loopCount = 1
                /\ i = Len(trace)
                /\ pending = <<>>
                /\ i > 1
                /\ EndsTraversal(trace[i - 1])
                /\ trace[i - 1].frame = trace[i].frame
                /\ TraversalsEndedBy(i) = 1
                /\ \A seg \in 0 .. LastSegment :
                      Cardinality({j \in 1 .. i :
                                      /\ IsStep(trace[j])
                                      /\ trace[j].progress = One
                                      /\ trace[j].segmentIndex = seg}) = 1

C6_Witness ==
    /\ FollowCase
    /\ ~args.loop
    /\ Len(args.points) = 3
    /\ Len(trace) >= 4
    /\ IsComplete(trace[Len(trace)])
    /\ trace[Len(trace)].loopCount = 1
    /\ now < MaxTime

\* time that one traversal needs at most under the frame scheduler
TraversalTime ==
    (Len(args.points) - 1)
       * (((args.duration + Len(args.points) - 2) \div (Len(args.points) - 1))
             - 1 + MaxGap)

\* the loopCount that the latest update callback received
LastStepLoopCount ==
    IF Steps = <<>> THEN NA ELSE Steps[Len(Steps)].loopCount

\* the latest update callback belongs to a traversal of this parity (the
\* call itself counts as odd: the first traversal is traversal 0), and the
\* clock leaves time for one more traversal and one more frame
LoopingAt(parity) ==
    /\ FollowCase /\ args.loop
    /\ LastStepLoopCount % 2 = parity
    /\ now + TraversalTime + 1 <= MaxTime

\* C7: followPath with loop = true never invokes the completion callback and
\* never stops: one frame callback is always pending, and under a fair frame
\* scheduler with advancing time every traversal is followed by the next one,
\* whose update callbacks carry the next loopCount.
C7_LoopNeverCompletes ==
    /\ [](FollowCase /\ args.loop =>
             /\ Completes = <<>>
             /\ Len(pending) = 1
             /\ loopCount = TraversalsEndedBy(Len(trace))
             /\ LastStepLoopCount \in {loopCount - 1, loopCount})
    /\ LoopingAt(0) ~> (LastStepLoopCount % 2 = 1)
    /\ LoopingAt(1) ~> (LastStepLoopCount % 2 = 0)

C7_Witness ==
    /\ LoopingAt(1)
    /\ ~args.yoyo
    /\ LastStepLoopCount = 1
    /\ loopCount = 2
    /\ Completes = <<>>
    /\ Len(pending) = 1

\* direction of traversal k under yoyo
YoyoDirection(k) ==
    IF k % 2 = 0
    THEN args.direction
    ELSE IF args.direction = "forward" THEN "backward" ELSE "forward"

\* C8: with loop and yoyo the direction passed to the update callback is
\* constant within a traversal and alternates between traversals: traversal
\* k reports the initial direction when k is even and the opposite one when
\* k is odd.
C8_YoyoDirectionAlternates ==
    (FollowCase /\ args.loop /\ args.yoyo) =>
       /\ currentDirection = YoyoDirection(loopCount)
       /\ \A i \in DOMAIN trace :
             IsStep(trace[i]) =>
                /\ trace[i].direction = YoyoDirection(trace[i].loopCount)
                /\ trace[i].loopCount = TraversalsEndedBy(i - 1)

C8_Witness ==
    /\ FollowCase /\ args.loop /\ args.yoyo
    /\ args.direction = "forward"
    /\ \E i, j, k \in DOMAIN trace :
          /\ IsStep(trace[i]) /\ trace[i].loopCount = 0
          /\ trace[i].direction = "forward"
          /\ IsStep(trace[j]) /\ trace[j].loopCount = 1
          /\ trace[j].direction = "backward"
          /\ IsStep(trace[k]) /\ trace[k].loopCount = 2
          /\ trace[k].direction = "forward"

\* the working point sequence of traversal k under yoyo
InitialSequence ==
    IF args.direction = "forward" THEN args.points ELSE Reverse(args.points)

YoyoSequence(k) ==
    IF k % 2 = 0 THEN InitialSequence ELSE Reverse(InitialSequence)

\* the pending move is the first segment of its traversal
AtFirstSegment == currentSegment = 0 /\ Len(pending) = 1

YoyoSequencesReversed ==
    /\ pathPoints = YoyoSequence(loopCount)
    /\ YoyoSequence(loopCount + 1) = Reverse(pathPoints)
    /\ AtFirstSegment =>
          /\ pending[1].startPoint = YoyoSequence(loopCount)[1]
          /\ loopCount > 0 =>
                pending[1].startPoint =
                   YoyoSequence(loopCount - 1)[Len(args.points)]

RoundedEndPoint(a, b) == Pt(RoundedEnd(a.x, b.x), RoundedEnd(a.y, b.y))

ExactSegment(a, b) ==
    Representable(b.x - a.x) /\ Representable(b.y - a.y)

C10_LoopCountCountsTraversals ==
    FollowCase =>
       /\ loopCount = TraversalsEndedBy(Len(trace))
       /\ \A i \in DOMAIN trace :
             IsStep(trace[i]) =>
                /\ trace[i].loopCount = TraversalsEndedBy(i - 1)
                /\ i = 1 => trace[i].loopCount = 0
                /\ (i > 1 /\ IsStep(trace[i - 1])) =>
                      trace[i].loopCount =
                         IF EndsTraversal(trace[i - 1])
                         THEN trace[i - 1].loopCount + 1
                         ELSE trace[i - 1].loopCount

C10_Witness ==
    /\ FollowCase
    /\ Len(args.points) = 3
    /\ \E i, j, k \in DOMAIN trace :
          /\ i < j /\ j < k
          /\ IsStep(trace[i]) /\ trace[i].loopCount = 0
          /\ trace[i].segmentIndex = 0
          /\ IsStep(trace[j]) /\ trace[j].loopCount = 0
          /\ trace[j].segmentIndex = 1
          /\ IsStep(trace[k]) /\ trace[k].loopCount = 1

\* ------------------------------------------- boundary and error cases
NonPositiveDurationCase == op = "moveBetweenPoints" /\ args.duration <= 0

NegativeDurationKeepsScheduling ==
    (op = "moveBetweenPoints" /\ args.duration < 0 /\ frameNo >= 2) =>
       (Len(pending) = 1 /\ Completes = <<>>)

DegenerateWalkCase ==
    op = "moveAlongPath" /\ (args.pointsIsNull \/ Len(args.points) < 2)

\* C12: moveAlongPath given null or fewer than 2 points invokes the overall
\* completion callback exactly once, inside the call itself, invokes neither
\* the step callback nor the segment-completion callback and schedules no
\* frame.
C12_DegeneratePathCompletesAtOnce ==
    DegenerateWalkCase =>
       /\ pending = <<>>
       /\ frameNo = 0
       /\ Steps = <<>>
       /\ SegmentCompletes = <<>>
       /\ args.completeCallback =>
             (Len(trace) = 1 /\ IsComplete(trace[1]) /\ trace[1].frame = 0)
       /\ ~args.completeCallback => trace = <<>>

\* moveAlongPath(null, ...) with all three callbacks has returned
C12_Witness ==
    /\ DegenerateWalkCase
    /\ args.pointsIsNull
    /\ args.stepCallback /\ args.segmentCompleteCallback
    /\ args.completeCallback
    /\ Len(Completes) = 1
    /\ pending = <<>>

\* the frame callbacks of one invocation that are pending
OwnPending(id) == SelectSeq(pending, LAMBDA c : c.owner = id)

\* a followPath call whose arguments violate the contract
InvalidFollowArguments(a) ==
    ~a.pathIsPath \/ Len(a.points) < 2 \/ ~a.updateCallback

\* C13: followPath called with a path that is not a Path, with fewer than 2
\* points or without update callback throws in the call itself: it has
\* invoked no callback and started no move, and the scheduler's pending
\* callbacks are the same after the call as before it.
C13_InvalidFollowPathThrows ==
    /\ [](/\ other.op = "followPath"
          /\ InvalidFollowArguments(other.args)
          => /\ other.thrown = "TypeError"
             /\ other.trace = <<>>
             /\ other.moves = <<>>
             /\ OwnPending(2) = <<>>)
    /\ [][(/\ other.op = "none"
           /\ other'.op = "followPath"
           /\ InvalidFollowArguments(other'.args))
          => /\ other'.thrown = "TypeError"
             /\ pending' = pending
             /\ trace' = trace]_vars

\* followPath without update callback has thrown while a frame callback of
\* another invocation was pending
C13_Witness ==
    /\ other.op = "followPath"
    /\ other.args.pathIsPath
    /\ Len(other.args.points) = 2
    /\ ~other.args.updateCallback
    /\ other.thrown = "TypeError"
    /\ Len(pending) = 1
    /\ frameNo >= 1

\* ------------------------------------------------------------ scheduling
\* an invocation that starts an animation
AnimationStarted ==
    \/ op = "moveBetweenPoints"
    \/ op = "moveAlongPath" /\ ~args.pointsIsNull /\ Len(args.points) >= 2
    \/ op = "followPath" /\ thrown = "none"

\* the invocation delivers steps to a callback of the caller
StepsObserved ==
    IF op = "followPath" THEN args.updateCallback ELSE args.stepCallback

\* C14: moveBetweenPoints, moveAlongPath with at least 2 points and
\* followPath return without having invoked any callback and with exactly
\* one frame callback pending; step 0 is delivered in the first frame after
\* the call.
C14_NonBlockingFirstStepOnFirstFrame ==
    AnimationStarted =>
       /\ frameNo = 0 => (trace = <<>> /\ Len(pending) = 1)
       /\ \A i \in DOMAIN trace : trace[i].frame >= 1
       /\ (StepsObserved /\ frameNo >= 1) =>
             /\ Steps # <<>>
             /\ IsStep(trace[1])
             /\ trace[1].stepIndex = 0
             /\ trace[1].frame = 1
             /\ op # "moveBetweenPoints" => trace[1].segmentIndex = 0

\* the first frame of a followPath has delivered step 0 and the animation
\* goes on
C14_Witness ==
    /\ op = "followPath"
    /\ AnimationStarted
    /\ frameNo = 1
    /\ Len(trace) = 1
    /\ trace[1].stepIndex = 0
    /\ trace[1].frame = 1
    /\ LessThanOne(trace[1].progress)
    /\ Len(pending) = 1

\* C15: an invocation has at most one frame callback pending at every
\* moment, also when a segment or a traversal ends and the next one starts,
\* and its steps run one per frame, in distinct frames.
C15_AtMostOnePendingFrame ==
    AnimationStarted =>
       /\ Len(pending) <= 1
       /\ \A k \in 1 .. (Len(Steps) - 1) : Steps[k].frame < Steps[k + 1].frame
       /\ \A k \in DOMAIN Steps : Steps[k].frame <= frameNo

\* a looping followPath over two segments is in its second traversal with
\* one frame callback pending
C15_Witness ==
    /\ op = "followPath"
    /\ AnimationStarted
    /\ args.loop
    /\ Len(args.points) = 3
    /\ loopCount = 1
    /\ currentSegment = 1
    /\ Len(pending) = 1
    /\ Len(Steps) >= 3

\* --------------------------------------------- segments of moveAlongPath
\* number of terminal steps among the first n steps
TerminalStepsBefore(n) ==
    Cardinality({k \in 1 .. n : Steps[k].progress = One})

\* the position of a step of the segment from a to b at this progress
PositionOn(a, b, progress) ==
    Pt(calculateLinearInterpolation(a.x, b.x, progress),
       calculateLinearInterpolation(a.y, b.y, progress))

\* C16: in moveAlongPath the stepIndex passed to the step callback counts
\* the steps of the current segment: it is 0 at the first step of every
\* segment and grows by 1 per step within the segment; the segmentIndex
\* passed with it is the index of the segment being walked (the number of
\* segments finished before, and the segment the position lies on).
C16_StepIndexPerSegment ==
    (WalkCase /\ args.stepCallback) =>
       \A k \in DOMAIN Steps :
          LET seg == Steps[k].segmentIndex
          IN  /\ seg = TerminalStepsBefore(k - 1)
              /\ seg \in 0 .. (Len(args.points) - 2)
              /\ Pt(Steps[k].x, Steps[k].y) =
                    PositionOn(args.points[seg + 1], args.points[seg + 2],
                               Steps[k].progress)
              /\ Steps[k].stepIndex =
                    IF k = 1 \/ Steps[k - 1].segmentIndex # seg
                    THEN 0
                    ELSE Steps[k - 1].stepIndex + 1

\* the second segment starts again at stepIndex 0 after a first segment of
\* several steps, and goes on to stepIndex 1
C16_Witness ==
    /\ WalkCase /\ args.stepCallback
    /\ \E k \in DOMAIN Steps :
          /\ k >= 3
          /\ k < Len(Steps)
          /\ Steps[k - 1].segmentIndex = 0
          /\ Steps[k - 1].stepIndex >= 1
          /\ Steps[k].segmentIndex = 1
          /\ Steps[k].stepIndex = 0
          /\ Steps[k + 1].segmentIndex = 1
          /\ Steps[k + 1].stepIndex = 1

\* C17: moveAlongPath over N = points.length - 1 segments starts exactly N
\* point-to-point moves, the i-th from points[i] to points[i+1] (counting
\* from 0), one after the other, and every one of them with the duration
\* duration / N.
C17_OneMovePerSegmentEqualDuration ==
    WalkCase =>
       LET N == Len(args.points) - 1
       IN  /\ Len(moves) <= N
           /\ Finished => Len(moves) = N
           /\ pending # <<>> => Len(moves) = currentSegment + 1
           /\ \A i \in DOMAIN moves :
                 /\ moves[i].startPoint = args.points[i]
                 /\ moves[i].endPoint = args.points[i + 1]
                 /\ moves[i].duration[1] * N
                       = args.duration * moves[i].duration[2]
                 /\ moves[i].duration = moves[1].duration

\* a path of three segments has been walked with a duration of 2
C17_Witness ==
    /\ WalkCase
    /\ Finished
    /\ Len(args.points) = 4
    /\ args.duration = 2
    /\ Len(moves) = 3
    /\ moves[3].startPoint = PointC
    /\ moves[3].endPoint = PointU

\* ------------------------------------------------- direction of followPath
\* the working sequence followPath prepares from the path and the direction
WorkingSequence ==
    IF args.direction = "forward" THEN args.points ELSE Reverse(args.points)

\* the traversals that walk the working sequence as prepared (the first
\* one, and without yoyo every one) start one move per segment of it, in
\* order, and keep it as pathPoints
WalksWorkingSequence ==
    LET N == Len(args.points) - 1
    IN  /\ ~args.yoyo => pathPoints = WorkingSequence
        /\ loopCount = 0 => pathPoints = WorkingSequence
        /\ \A i \in DOMAIN moves :
              (i <= N \/ ~args.yoyo) =>
                 /\ moves[i].startPoint = WorkingSequence[((i - 1) % N) + 1]
                 /\ moves[i].endPoint = WorkingSequence[((i - 1) % N) + 2]

\* a terminal step of such a traversal
TerminalOfWorkingSequence(e) ==
    IsStep(e) /\ e.progress = One /\ (e.loopCount = 0 \/ ~args.yoyo)

C19_PathNotMutated ==
    (op = "followPath" /\ thrown = "none") => path = args.points

\* a backward followPath with yoyo has reversed its working sequence three
\* times (once up front, twice between traversals) and the path is as it was
C19_Witness ==
    /\ FollowCase
    /\ args.direction = "backward"
    /\ args.loop /\ args.yoyo
    /\ Len(args.points) = 3
    /\ loopCount = 2
    /\ pathPoints = Reverse(args.points)
    /\ path = args.points
    /\ path # pathPoints

\* ------------------------------------------- two invocations in flight
\* the first invocation, as a record like the second one
First == St(op, args, frameNo)

\* the sequence of points an invocation walks
WalkedPoints(v) ==
    IF v.op = "followPath" /\ v.args.direction = "backward"
    THEN Reverse(v.args.points)
    ELSE v.args.points

\* what one moveAlongPath or followPath (without loop) invocation v
\* guarantees, stated on its own callbacks, moves and frame callbacks
KeepsItsGuarantees(v) ==
    LET N     == Len(v.args.points) - 1
        W     == WalkedPoints(v)
        steps == SelectSeq(v.trace, IsStep)
        segs  == SelectSeq(v.trace, IsSegmentComplete)
        comps == SelectSeq(v.trace, IsComplete)
        own   == OwnPending(v.id)
    IN  /\ Len(own) <= 1
        \* segment completions 0 .. N-1, in order
        /\ v.op = "moveAlongPath" =>
              /\ Len(segs) <= N
              /\ Len(segs) = v.currentSegment
              /\ \A k \in DOMAIN segs : segs[k].segmentIndex = k - 1
              /\ own = <<>> => Len(segs) = N
        \* step indices consecutive per segment, on its own segments
        /\ \A k \in DOMAIN steps :
              LET seg == steps[k].segmentIndex
              IN  /\ seg \in 0 .. (N - 1)
                  /\ seg = Cardinality({j \in 1 .. (k - 1) :
                                           steps[j].progress = One})
                  /\ steps[k].stepIndex =
                        IF k = 1 \/ steps[k - 1].segmentIndex # seg
                        THEN 0
                        ELSE steps[k - 1].stepIndex + 1
                  /\ Pt(steps[k].x, steps[k].y) =
                        PositionOn(W[seg + 1], W[seg + 2], steps[k].progress)
        \* one move per segment, with its own duration
        /\ Len(v.moves) <= N
        /\ \A i \in DOMAIN v.moves :
              /\ v.moves[i].startPoint = W[i]
              /\ v.moves[i].endPoint = W[i + 1]
              /\ v.moves[i].duration = <<v.args.duration, N>>
        \* completion exactly once, at the end
        /\ Len(comps) <= 1
        /\ own = <<>> <=> Len(comps) = 1
        /\ \A i \in DOMAIN v.trace :
              IsComplete(v.trace[i]) =>
                 /\ i = Len(v.trace)
                 /\ Len(v.moves) = N
                 /\ v.trace[i].loopCount =
                       IF v.op = "followPath" THEN 1 ELSE NA

InFlightOrDone(v) ==
    /\ v.op \in {"moveAlongPath", "followPath"}
    /\ v.thrown = "none"

\* C20: with two independent moveAlongPath/followPath invocations in
\* flight at once, whatever the order in which their frame callbacks run,
\* each invocation keeps its guarantees: its segment completions are
\* 0 .. N-1 in order, its step indices are consecutive per segment, its
\* completion fires exactly once, and its moves, counters and positions are
\* those of its own arguments.
C20_IndependentInvocations ==
    (InFlightOrDone(First) /\ InFlightOrDone(other)) =>
       (KeepsItsGuarantees(First) /\ KeepsItsGuarantees(other))

\* two walks have both completed after their steps interleaved: a step of
\* each one lies between two steps of the other
C20_Witness ==
    /\ op = "moveAlongPath"
    /\ other.op = "moveAlongPath"
    /\ Len(other.args.points) = 3
    /\ Len(Completes) = 1
    /\ Len(SelectSeq(other.trace, IsComplete)) = 1
    /\ pending = <<>>
    /\ \E i, j \in DOMAIN trace, k \in DOMAIN other.trace :
          /\ IsStep(trace[i]) /\ IsStep(trace[j]) /\ IsStep(other.trace[k])
          /\ trace[i].frame < other.trace[k].frame
          /\ other.trace[k].frame < trace[j].frame
    /\ \E i, j \in DOMAIN other.trace, k \in DOMAIN trace :
          /\ IsStep(other.trace[i]) /\ IsStep(other.trace[j])
          /\ IsStep(trace[k])
          /\ other.trace[i].frame < trace[k].frame
          /\ trace[k].frame < other.trace[j].frame

\* ----------------------------------------------------------------- moveBy
MoveByCase ==
    /\ op = "moveBy"
    /\ args.elementIsElement
    /\ args.pathIsPath
    /\ Len(args.points) >= 2
    /\ args.duration > 0

MovedElement == heap[args.element]

\* C21: CanvasAnimationFramework.moveBy with a valid Element, a Path of at
\* least 2 points and duration > 0 moves the element along the path: every
\* step puts the element at the step's position, and once the invocation has
\* no frame callback pending the element is at the path's end point and
\* completeCallback has been invoked exactly once.
C21_MoveByReachesEndPoint ==
    MoveByCase =>
       /\ Steps # <<>> =>
             /\ MovedElement.x = Steps[Len(Steps)].x
             /\ MovedElement.y = Steps[Len(Steps)].y
       /\ Len(Completes) <= 1
       /\ pending = <<>> =>
             /\ MovedElement.x = getEndPoint(args.points).x
             /\ MovedElement.y = getEndPoint(args.points).y
             /\ args.completeCallback => Len(Completes) = 1

\* what the code does instead: the first step moves the element and then
\* throws, and that is the end of the invocation
MoveByStopsAfterFirstStep ==
    (MoveByCase /\ frameNo >= 1) =>
       /\ thrown = "TypeError"
       /\ pending = <<>>
       /\ Len(Steps) = 1
       /\ Completes = <<>>
       /\ MovedElement.x = Steps[1].x
       /\ MovedElement.y = Steps[1].y

\* ------------------------------------------------------ the scene container
Registered(registry, id) ==
    \E i \in DOMAIN registry : heap[registry[i]].id = id

Holds(registry, e) == \E i \in DOMAIN registry : registry[i] = e

\* C22: removeElement(id) of the base framework changes only elements: it
\* removes every registered element whose id is id, keeps the others in
\* their order, and leaves flashingElements, temporaryObjects and the
\* elements themselves as they are.
C22_RemoveElementOnlyElements ==
    [][called'.name = "removeElement" =>
          /\ elements' =
                SelectSeq(elements, LAMBDA e : heap[e].id # called'.arg)
          /\ \A i \in DOMAIN elements' : heap[elements'[i]].id # called'.arg
          /\ flashingElements' = flashingElements
          /\ temporaryObjects' = temporaryObjects
          /\ heap' = heap
          /\ raised' = "none"]_vars

\* an element was removed while it is flashing: it is no longer registered,
\* is still in flashingElements, and another element is still registered
C22_Witness ==
    /\ called.name = "removeElement"
    /\ Registered(flashingElements, called.arg)
    /\ ~Registered(elements, called.arg)
    /\ elements # <<>>
    /\ Cardinality({e \in DOMAIN heap : heap[e].id = called.arg}) = 1

TemporaryOperations == {"createTemporaryElement", "removeTemporaryElement"}
FlashOperations == {"addFlash", "removeFlash"}
ElementOperations == {"addElement", "removeElement"}

\* C23: the three registries are independent: createTemporaryElement and
\* removeTemporaryElement change only temporaryObjects, addFlash and
\* removeFlash only flashingElements, addElement and removeElement only
\* elements, and no other operation changes a registry.
C23_RegistriesIndependent ==
    [][/\ called'.name \in TemporaryOperations =>
             /\ elements' = elements
             /\ flashingElements' = flashingElements
       /\ called'.name \in FlashOperations =>
             /\ elements' = elements
             /\ temporaryObjects' = temporaryObjects
       /\ called'.name \in ElementOperations =>
             /\ temporaryObjects' = temporaryObjects
             /\ flashingElements' = flashingElements
       /\ temporaryObjects' # temporaryObjects =>
             called'.name \in TemporaryOperations
       /\ flashingElements' # flashingElements =>
             called'.name \in FlashOperations
       /\ elements' # elements => called'.name \in ElementOperations
       /\ heap' # heap => called'.name = "new Element"]_vars

\* a temporary element was taken out while it is registered and flashing
C23_Witness ==
    /\ called.name = "removeTemporaryElement"
    /\ ~Holds(temporaryObjects, called.arg)
    /\ temporaryObjects # <<>>
    /\ Holds(elements, called.arg)
    /\ Holds(flashingElements, called.arg)

\* the centre coordinate x + size / 2 of an element with a size, which is
\* exact for the coordinates of the model; NaN for an element without one
IsCentre(c, x, size, kind) ==
    IF kind = "Box" /\ size # NaN THEN 2 * (c - x) = size ELSE c = NaN

\* C24: createLink(e1, e2, lineStyle, startArrow, endArrow) returns a new
\* Link whose path has exactly the two points (e1.x + e1.width / 2,
\* e1.y + e1.height / 2) and (e2.x + e2.width / 2, e2.y + e2.height / 2),
\* whose border style is lineStyle and whose arrow flags are the ones given;
\* it registers nothing and changes no element.
C24_CreateLinkCentreToCentre ==
    [][(called'.name = "createLink" /\ raised' = "none") =>
          LET o1 == heap[called'.arg]
              o2 == heap[called'.arg2]
              l  == created'
          IN  /\ l.kind = "Link"
              /\ Len(l.path) = 2
              /\ IsCentre(l.path[1].x, o1.x, o1.width, o1.kind)
              /\ IsCentre(l.path[1].y, o1.y, o1.height, o1.kind)
              /\ IsCentre(l.path[2].x, o2.x, o2.width, o2.kind)
              /\ IsCentre(l.path[2].y, o2.y, o2.height, o2.kind)
              /\ l.borderStyle = called'.lineStyle
              /\ l.startArrow = called'.startArrow
              /\ l.endArrow = called'.endArrow
              /\ \A e \in DOMAIN heap : heap[e].id # l.id
              /\ heap' = heap
              /\ elements' = <<>>
              /\ temporaryObjects' = <<>>
              /\ flashingElements' = <<>>]_vars

\* Scenario E at the model's scale (1 : 25): boxes (0, 0, 2, 2) and
\* (4, 4, 2, 2), linked "dashed" with a start arrow only
C24_Witness ==
    /\ called.name = "createLink"
    /\ called.arg # called.arg2
    /\ heap[called.arg].kind = "Box"
    /\ heap[called.arg2].kind = "Box"
    /\ created.path = <<Pt(1, 1), Pt(5, 5)>>
    /\ created.borderStyle = "dashed"
    /\ created.startArrow
    /\ ~created.endArrow

Boxes == {e \in DOMAIN heap : heap[e].kind = "Box"}

\* C25: constructing a Box with width <= 0 or height <= 0 fails with a
\* range error, and every Box that exists has width > 0 and height > 0.
C25_BoxSizesPositive ==
    /\ (called.name = "new Box"
          /\ (NotPositive(called.arg) \/ NotPositive(called.arg2))) =>
             raised = "RangeError"
    /\ \A e \in Boxes :
          /\ heap[e].width # NaN /\ heap[e].width > 0
          /\ heap[e].height # NaN /\ heap[e].height > 0

\* what the constructor does ensure: no Box has a size that is <= 0, and a
\* Box whose size is not > 0 has the size NaN
BoxSizesNotRejected ==
    \A e \in Boxes :
       /\ heap[e].width = NaN \/ heap[e].width > 0
       /\ heap[e].height = NaN \/ heap[e].height > 0

Links == {e \in DOMAIN heap : heap[e].kind = "Link"}

\* C27: in every reachable state the position of a Link is the start point
\* of its path.
C27_LinkMirrorsPathStart ==
    \A e \in Links :
       /\ heap[e].x = getStartPoint(heap[e].path).x
       /\ heap[e].y = getStartPoint(heap[e].path).y

\* what does hold: a Link is at the start point of its path as long as
\* moveTo has not been called on it
LinkMirrorsPathStartUntilMoved ==
    [][\A e \in Links :
          (/\ heap[e].x = getStartPoint(heap[e].path).x
           /\ heap[e].y = getStartPoint(heap[e].path).y
           /\ ~(called'.name = "moveTo" /\ called'.arg = e)) =>
             /\ heap'[e].x = getStartPoint(heap'[e].path).x
             /\ heap'[e].y = getStartPoint(heap'[e].path).y]_vars

\* C28: an invisible element never reaches the renderer: draw on an
\* invisible Box or Link invokes neither drawBox nor drawLink; draw on a
\* visible one invokes exactly the primitive of its class, once, with the
\* element itself; draw changes no element.
C28_InvisibleNeverDrawn ==
    [][called'.name = "draw" =>
          LET e == called'.arg
          IN  /\ ~heap[e].visible => drawn' = <<>>
              /\ (heap[e].visible /\ heap[e].kind = "Box") =>
                    drawn' = <<[primitive |-> "drawBox", element |-> e]>>
              /\ (heap[e].visible /\ heap[e].kind = "Link") =>
                    drawn' = <<[primitive |-> "drawLink", element |-> e]>>
              /\ heap' = heap
              /\ raised' = "none"]_vars

\* draw was called on a Box that had been made invisible
C28_Witness ==
    /\ called.name = "draw"
    /\ heap[called.arg].kind = "Box"
    /\ ~heap[called.arg].visible
    /\ drawn = <<>>

\* ------------------------------------------------------------- termination
\* the step that ends the invocation: progress 1, on the last segment
LastStepIsTerminal ==
    (IF op = "moveBetweenPoints"
     THEN args.stepCallback
     ELSE IF op = "moveAlongPath" THEN args.stepCallback ELSE TRUE) =>
       /\ Steps # <<>>
       /\ Steps[Len(Steps)].progress = One

Terminated ==
    /\ pending = <<>>
    /\ thrown = "none"
    /\ LastStepIsTerminal
    /\ args.completeCallback => Len(Completes) = 1

\* startTime + duration of a pending move lies after the timestamp t
EndsAfter(cl, t) ==
    cl.startTime * cl.duration[2] + cl.duration[1] > t * cl.duration[2]

\* the clock of the model has stopped before the end time of a pending move:
\* no timestamp will exceed its startTime + duration
ClockEndsFirst ==
    /\ now = MaxTime
    /\ \E i \in DOMAIN pending : EndsAfter(pending[i], MaxTime)

PositiveDurationCase ==
    \/ MoveBetweenPointsCase
    \/ WalkCase
    \/ FollowCase /\ ~args.loop

\* C29: under a fair frame scheduler whose timestamps eventually exceed
\* startTime + duration, a moveBetweenPoints invocation with duration > 0
\* terminates: progress reaches 1, the completion fires and no frame
\* callback stays pending; so do moveAlongPath and followPath with
\* loop = false.  A frame callback is pending only as long as the latest
\* timestamp it has seen lies before its startTime + duration.
C29_PositiveDurationTerminates ==
    /\ [](PositiveDurationCase =>
             \A i \in DOMAIN pending :
                EndsAfter(pending[i], pending[i].since))
    /\ MoveBetweenPointsCase ~> (Terminated \/ ClockEndsFirst)
    /\ WalkCase ~> (Terminated \/ ClockEndsFirst)
    /\ (FollowCase /\ ~args.loop) ~> (Terminated \/ ClockEndsFirst)

\* a followPath over three segments, without loop, has terminated
C29_Witness ==
    /\ FollowCase
    /\ ~args.loop
    /\ Len(args.points) = 4
    /\ args.completeCallback
    /\ Terminated
    /\ Len(moves) = 3

\* ------------------------------------------------------ optional callbacks
\* number of events of a kind when the callback is supplied, none otherwise
Delivered(supplied, n) == IF supplied THEN n ELSE 0

\* C30: moveBetweenPoints and moveAlongPath make the same progress whether
\* or not the optional callbacks are supplied: whatever callbacks are null,
\* the segments are walked one at a time in order, a supplied overall
\* completion fires exactly once when the last one ends, and after the
\* terminal step nothing is scheduled; a callback that is null is never
\* invoked.
C30_ProgressWithoutCallbacks ==
    /\ WalkCase =>
          LET N == Len(args.points) - 1
          IN  /\ Len(moves) \in 1 .. N
              /\ \A i \in DOMAIN moves :
                    /\ moves[i].startPoint = args.points[i]
                    /\ moves[i].endPoint = args.points[i + 1]
              /\ pending # <<>> =>
                    /\ Len(pending) = 1
                    /\ currentSegment = Len(moves) - 1
                    /\ pending[1].startPoint = args.points[Len(moves)]
                    /\ pending[1].endPoint = args.points[Len(moves) + 1]
                    /\ Completes = <<>>
              /\ pending = <<>> =>
                    /\ Len(moves) = N
                    /\ currentSegment = N
                    /\ Len(Completes) = Delivered(args.completeCallback, 1)
              /\ Len(SegmentCompletes) =
                    Delivered(args.segmentCompleteCallback, currentSegment)
              /\ ~args.stepCallback => Steps = <<>>
    /\ MoveBetweenPointsCase =>
          /\ Len(moves) = 1
          /\ Len(pending) <= 1
          /\ pending # <<>> => Completes = <<>>
          /\ pending = <<>> =>
                /\ frameNo >= 1
                /\ Len(Completes) = Delivered(args.completeCallback, 1)
          /\ ~args.stepCallback => Steps = <<>>

\* a walk over three segments has ended without a single callback
C30_Witness ==
    /\ WalkCase
    /\ Len(args.points) = 4
    /\ ~args.stepCallback
    /\ ~args.segmentCompleteCallback
    /\ ~args.completeCallback
    /\ pending = <<>>
    /\ Len(moves) = 3
    /\ trace = <<>>

\* ------------------------------------------------ the clock of a segment
\* C31: each segment of moveAlongPath has a clock of its own, started when
\* the segment starts (when the previous one completes): a segment never
\* completes before duration / N has elapsed since its own start, and the
\* walk never completes before the whole duration has elapsed since the
\* call; the time taken can exceed the duration and is never less.
C31_SegmentClocks ==
    WalkCase =>
       LET N == Len(args.points) - 1
       IN  /\ \A i \in DOMAIN moves :
                 /\ moves[i].startTime <= now
                 /\ i > 1 =>
                       /\ (moves[i].startTime - moves[i - 1].startTime) * N
                             >= args.duration
                       /\ moves[i].startTime - moves[1].startTime
                             >= 0
                       /\ (moves[i].startTime - moves[1].startTime) * N
                             >= (i - 1) * args.duration
           /\ pending # <<>> =>
                 pending[1].startTime = moves[Len(moves)].startTime
           /\ Finished =>
                 /\ (lastTs - moves[N].startTime) * N >= args.duration
                 /\ lastTs - moves[1].startTime >= args.duration

\* a walk over two segments has ended later than its duration after the call
C31_Witness ==
    /\ WalkCase
    /\ Finished
    /\ Len(args.points) = 3
    /\ Len(moves) = 2
    /\ moves[2].startTime > moves[1].startTime
    /\ lastTs - moves[1].startTime > args.duration

\* ------------------------------------------ positions of moveBetweenPoints
\* the rational p is in [0, 1]
InUnitInterval(p) == p[2] > 0 /\ p[1] >= 0 /\ p[1] <= p[2]

\* the rational p is at most the rational q
AtMost(p, q) == p[1] * q[2] <= q[1] * p[2]

\* v lies between a and b, whichever of them is the smaller one
Between(a, v, b) == (a <= v /\ v <= b) \/ (b <= v /\ v <= a)

\* every reported position is the interpolation of the reported progress; the
\* step of the latest frame has progress min(elapsed / duration, 1), which
\* is in [0, 1] when the frame's timestamp is not before the start time;
\* progress never decreases from one step to the next
PositionsFollowProgress ==
    /\ \A i \in DOMAIN Steps :
          /\ Steps[i].x = calculateLinearInterpolation(
                              args.startPoint.x, args.endPoint.x,
                              Steps[i].progress)
          /\ Steps[i].y = calculateLinearInterpolation(
                              args.startPoint.y, args.endPoint.y,
                              Steps[i].progress)
          /\ Steps[i].progress[2] > 0
          /\ Steps[i].progress[1] <= Steps[i].progress[2]
          /\ i > 1 => AtMost(Steps[i - 1].progress, Steps[i].progress)
    /\ (Steps # <<>> /\ Steps[Len(Steps)].frame = frameNo) =>
          LET p == Steps[Len(Steps)].progress
          IN  /\ p = Progress(lastTs - moves[1].startTime,
                              <<args.duration, 1>>)
              /\ lastTs >= moves[1].startTime <=> p[1] >= 0

CallbackThrew == op # "none" /\ thrown # "none" /\ Steps # <<>>

\* what the engine does on behalf of the invocation
EngineActivity ==
    <<trace, pending, moves, frameNo, thrown,
      IF op = "moveBy" THEN heap[args.element] ELSE NoObject>>

\* C33: when a step or update callback throws during a step, the exception
\* leaves the frame callback before the next frame is scheduled: the step
\* that threw is the last thing the invocation does, no frame is pending,
\* no segment-completion or completion callback follows it, and nothing is
\* retried.
C33_ThrowingCallbackHalts ==
    /\ [](CallbackThrew =>
            /\ pending = <<>>
            /\ IsStep(trace[Len(trace)])
            /\ trace[Len(trace)].frame = frameNo
            /\ Completes = <<>>
            /\ args.throwsAt > 0 => Len(Steps) = args.throwsAt
            /\ op = "moveBy" => Len(Steps) = 1)
    /\ [][CallbackThrew => UNCHANGED EngineActivity]_vars

\* the callback of a walk threw on its third invocation, on a step that was
\* not the terminal one of its segment, after a segment had completed
C33_Witness ==
    /\ op = "moveAlongPath"
    /\ CallbackThrew
    /\ args.throwsAt = 3
    /\ Len(SegmentCompletes) = 1
    /\ LessThanOne(trace[Len(trace)].progress)
    /\ now > lastTs

\* --------------------------------------------------- yoyo without loop
\* what an operation leaves behind, but for the arguments it was called with
Outcome(s) ==
    <<s.pending, s.thrown, s.path, s.points, s.totalSegments,
      s.segmentDuration, s.currentSegment, s.loopCount, s.pathPoints,
      s.currentDirection, s.pathPointsArray, s.moves, s.trace>>

\* what the invocation has left behind so far
Left == Outcome(St(op, args, 0))

\* the arguments with the other value of yoyo
OtherYoyo(a) == [a EXCEPT !.yoyo = ~a.yoyo]

\* a followPath call without loop, and a frame of such an invocation, leave
\* behind what they would leave with the other value of yoyo
YoyoIgnoredWithoutLoop ==
    /\ (op = "none" /\ op' = "followPath" /\ ~args'.loop) =>
          Left' =
             Outcome(followPath([St("followPath", OtherYoyo(args'), 0)
                                    EXCEPT !.path = args'.points]))
    /\ (op = "followPath" /\ ~args.loop /\ frameNo' = frameNo + 1) =>
          \E i \in DOMAIN pending :
             Left' =
                Outcome(animate([St(op, OtherYoyo(args), frameNo + 1)
                                    EXCEPT !.ts = lastTs'], i, lastTs'))

\* every update so far was reported with the initial direction, and every
\* move so far walks the working sequence from its first point
KeepsDirection ==
    LET N == Len(args.points) - 1
    IN  /\ currentDirection = args.direction
        /\ pathPoints = WorkingSequence
        /\ \A i \in DOMAIN Steps : Steps[i].direction = args.direction
        /\ \A i \in DOMAIN moves :
              /\ moves[i].startPoint = WorkingSequence[((i - 1) % N) + 1]
              /\ moves[i].endPoint = WorkingSequence[((i - 1) % N) + 2]
              /\ (i - 1) % N = 0 => moves[i].startPoint = WorkingSequence[1]

\* C34: yoyo has no effect unless loop is on. followPath with loop = false
\* and yoyo = true behaves exactly like loop = false and yoyo = false: the
\* same updates, with the initial direction, and one completion with
\* loopCount 1. With loop = true and yoyo = false the direction never
\* changes and every traversal walks the same working sequence from its
\* first point.
C34_YoyoNeedsLoop ==
    /\ []((FollowCase /\ ~args.loop) =>
            /\ KeepsDirection
            /\ Len(moves) <= Len(args.points) - 1
            /\ \A i \in DOMAIN Steps : Steps[i].loopCount = 0
            /\ loopCount = (IF Finished THEN 1 ELSE 0)
            /\ Len(Completes) =
                  (IF Finished THEN Delivered(args.completeCallback, 1) ELSE 0)
            /\ \A i \in DOMAIN Completes : Completes[i].loopCount = 1)
    /\ []((FollowCase /\ args.loop /\ ~args.yoyo) =>
            /\ KeepsDirection
            /\ Completes = <<>>)
    /\ [][YoyoIgnoredWithoutLoop]_vars

\* a backward followPath with yoyo and without loop has walked two segments
\* and completed with loopCount 1
C34_Witness ==
    /\ FollowCase
    /\ ~args.loop
    /\ args.yoyo
    /\ args.direction = "backward"
    /\ Len(args.points) = 3
    /\ Finished
    /\ Len(Steps) >= 2
    /\ Len(Completes) = 1
    /\ Completes[1].loopCount = 1
    /\ currentDirection = "backward"

\* ------------------------------------------- removal from a registry
\* the registry without the entries that are e, the others in their order
RECURSIVE Without(_, _)
Without(registry, e) ==
    IF registry = <<>> THEN <<>>
    ELSE IF Head(registry) = e THEN Without(Tail(registry), e)
    ELSE <<Head(registry)>> \o Without(Tail(registry), e)

\* after is before with every occurrence of e taken out
AllRemoved(before, after, e) ==
    /\ after = Without(before, e)
    /\ ~Holds(after, e)
    /\ Len(after) = Len(before) - Occurrences(before, e)
    /\ \A o \in DOMAIN heap :
          o # e => Occurrences(after, o) = Occurrences(before, o)
    /\ ~Holds(before, e) => after = before

\* C38: removeTemporaryElement(e) and removeFlash(e) remove every
\* occurrence of e from their registry (the adds do not deduplicate, so
\* there can be several) and keep the other entries in their order;
\* removing an element that is not in the registry leaves it unchanged.
C38_RemovalTakesEveryOccurrence ==
    [][/\ called'.name = "removeTemporaryElement" =>
             AllRemoved(temporaryObjects, temporaryObjects', called'.arg)
       /\ called'.name = "removeFlash" =>
             AllRemoved(flashingElements, flashingElements', called'.arg)
       /\ called'.name = "createTemporaryElement" =>
             temporaryObjects' = Append(temporaryObjects, called'.arg)
       /\ called'.name = "addFlash" =>
             flashingElements' = Append(flashingElements, called'.arg)]_vars

\* an element that was in temporaryObjects twice has been taken out, and
\* none of its occurrences is left
C38_Witness ==
    /\ called.name = "removeTemporaryElement"
    /\ called.arg2 = 2
    /\ ~Holds(temporaryObjects, called.arg)
    /\ Occurrences(flashingElements, called.arg) = 2

\* ------------------------------------- DOMAnimationFramework.moveBy
\* the callbacks of move k that are registered for a frame
FramesIn(d, k) == {i \in DOMAIN d.frames : d.frames[i].move = k}
FramesOf(k) == FramesIn(dom, k)

\* move k has run its terminal step
DoneIn(d, k) == d.moves[k].steps > 0 /\ ~LessThanOne(d.moves[k].progress)
DomDone(k) == DoneIn(dom, k)

\* the position of an element
PositionOf(e) == Pt(heap[e].x, heap[e].y)

\* the end of a move: start position + (pathEnd - pathStart) * 1
DomEnd(mv) == DomPosition(mv, One)

\* the moves of one element that are in flight at the same time
SameElement ==
    Len(dom.moves) = 2 /\ dom.moves[1].element = dom.moves[2].element

\* C35: the core does not serialise the animations of one element. With two
\* moves of the same element in flight at once, both chains keep running
\* under every interleaving of their frames; the position after each frame
\* is the one written by the step that ran last; and the final position is
\* the end of the move whose terminal step ran last.
C35_ConcurrentMovesLastWriterWins ==
    /\ \A k \in DOMAIN dom.moves :
          /\ Cardinality(FramesOf(k)) = (IF DomDone(k) THEN 0 ELSE 1)
          /\ dom.moves[k].steps > 0 =>
                Pt(dom.moves[k].x, dom.moves[k].y) =
                   DomPosition(dom.moves[k], dom.moves[k].progress)
    /\ called.name = "animate" =>
          LET mv == dom.moves[called.arg]
          IN  /\ mv.steps > 0
              /\ PositionOf(mv.element) = Pt(mv.x, mv.y)
              /\ dom.frames = <<>> =>
                    /\ DomDone(called.arg)
                    /\ PositionOf(mv.element) = DomEnd(mv)

\* two moves of one box were in flight at once; the first one ran its
\* terminal step after the second one, and the box is at the end of the
\* first one and not at the end of the second one
C35_Witness ==
    /\ SameElement
    /\ dom.frames = <<>>
    /\ called.name = "animate"
    /\ called.arg = 1
    /\ dom.moves[2].startTime < dom.moves[1].startTime + dom.moves[1].duration
    /\ dom.moves[2].startX # dom.moves[1].startX
    /\ PositionOf(dom.moves[1].element) = DomEnd(dom.moves[1])
    /\ PositionOf(dom.moves[1].element) # DomEnd(dom.moves[2])

\* a moveBy call takes the position of the element as the start position,
\* registers one callback and leaves the element where it is
DomMoveByStarts ==
    (called'.name = "moveBy" /\ dom' # dom) =>
       LET k  == Len(dom'.moves)
           mv == dom'.moves[k]
       IN  /\ k = Len(dom.moves) + 1
           /\ mv.element = called'.arg
           /\ Pt(mv.startX, mv.startY) = PositionOf(mv.element)
           /\ mv.startTime = now
           /\ heap' = heap
           /\ Cardinality(FramesIn(dom', k)) = 1

\* a step of a move sets the position of the element, and of its node, to
\* start position + (pathEnd - pathStart) * progress, and registers the
\* next step exactly when progress < 1
DomMoveBySteps ==
    (called'.name = "animate" /\ dom' # dom) =>
       LET k    == called'.arg
           mv   == dom.moves[k]
           p    == Progress(lastTs' - mv.startTime, <<mv.duration, 1>>)
           pos  == Pt(heap'[mv.element].x, heap'[mv.element].y)
           node == elementMapGet(dom, heap[mv.element].id)
       IN  /\ dom'.moves[k].progress = p
           /\ pos.x = NumAdd(mv.startX,
                             NumMul(NumSub(mv.endPoint.x, mv.startPoint.x),
                                    p))
           /\ pos.y = NumAdd(mv.startY,
                             NumMul(NumSub(mv.endPoint.y, mv.startPoint.y),
                                    p))
           /\ node # 0 =>
                 /\ dom'.nodes[node].left = pos.x
                 /\ dom'.nodes[node].top = pos.y
           /\ Cardinality(FramesIn(dom', k)) = (IF LessThanOne(p) THEN 1 ELSE 0)
           /\ ~LessThanOne(p) =>
                 /\ pos.x = NumAdd(mv.startX,
                                   NumSub(mv.endPoint.x, mv.startPoint.x))
                 /\ pos.y = NumAdd(mv.startY,
                                   NumSub(mv.endPoint.y, mv.startPoint.y))

\* the terminal step of a move has just run
DomTerminalStep ==
    called'.name = "animate" /\ dom' # dom /\ DoneIn(dom', called'.arg)

\* the sums of a move are exact: pathEnd - pathStart and start position +
\* (pathEnd - pathStart) are Numbers
DomExact(mv) ==
    /\ ExactSegment(mv.startPoint, mv.endPoint)
    /\ Representable(mv.startX + (mv.endPoint.x - mv.startPoint.x))
    /\ Representable(mv.startY + (mv.endPoint.y - mv.startPoint.y))

MappedIds(d) == {d.elementMap[i].key : i \in DOMAIN d.elementMap}
Attached(d) == {n \in DOMAIN d.nodes : d.nodes[n].parent = "root"}

\* the entries of elementMap for ids other than id are the same in d and d2
SameOtherEntries(d, d2, id) ==
    \A other_id \in Ids \ {id} :
        elementMapGet(d2, other_id) = elementMapGet(d, other_id)

\* a key has one entry, two keys have different nodes, and the nodes of the
\* entries are the nodes under the root
OneNodePerId ==
    /\ \A i, j \in DOMAIN dom.elementMap :
          (dom.elementMap[i].key = dom.elementMap[j].key
             \/ dom.elementMap[i].node = dom.elementMap[j].node) => i = j
    /\ {dom.elementMap[i].node : i \in DOMAIN dom.elementMap} = Attached(dom)

\* drawBox or drawLink of an element: afterwards its id has an entry; an
\* entry that was there is kept with its node and no node is added under
\* the root, otherwise one new node is added under the root
DrawInsertsOnce ==
    called'.name \in {"drawBox", "drawLink"} =>
        LET id == heap[called'.arg].id
        IN  /\ id \in MappedIds(dom')
            /\ SameOtherEntries(dom, dom', id)
            /\ heap' = heap /\ elements' = elements
            /\ IF id \in MappedIds(dom)
               THEN /\ elementMapGet(dom', id) = elementMapGet(dom, id)
                    /\ Attached(dom') = Attached(dom)
                    /\ Len(dom'.nodes) = Len(dom.nodes)
               ELSE /\ elementMapGet(dom', id) = Len(dom.nodes) + 1
                    /\ Attached(dom') =
                          Attached(dom) \cup {Len(dom.nodes) + 1}

\* removeElement(id): the entry of the id is gone, its node is no longer
\* under the root, and no element with that id is registered
RemoveDeletes ==
    called'.name = "removeElement" =>
        LET id == called'.arg
        IN  /\ id \notin MappedIds(dom')
            /\ SameOtherEntries(dom, dom', id)
            /\ Attached(dom') = Attached(dom) \ {elementMapGet(dom, id)}
            /\ \A i \in DOMAIN elements' : heap[elements'[i]].id # id
            /\ elements' = SelectSeq(elements, LAMBDA e : heap[e].id # id)

\* no other operation changes the map or the nodes
OthersKeepMap ==
    called'.name \notin {"drawBox", "drawLink", "removeElement"} =>
        dom' = dom

\* C37: elementMap has at most one node per element id and these are the
\* nodes under the root; the first drawBox/drawLink of an element adds one
\* node and an entry, a later one reuses them; removeElement(id) deletes
\* the entry, detaches the node and unregisters the element; nothing else
\* changes the map, so an id has an entry exactly when it was drawn since
\* its last removeElement
C37_NodeMapFollowsDraws ==
    /\ []OneNodePerId
    /\ [][DrawInsertsOnce /\ RemoveDeletes /\ OthersKeepMap]_vars

\* an element was drawn, removed and drawn again: its first node is
\* detached, its second node is the one of the map
C37_Witness ==
    /\ called.name = "drawBox"
    /\ Len(heap) = 1
    /\ elements = <<>>
    /\ Len(dom.nodes) = 2
    /\ dom.nodes[1].parent = "none"
    /\ dom.nodes[2].parent = "root"
    /\ dom.elementMap = <<[key |-> heap[1].id, node |-> 2]>>

\* ---------------------------------------------------------------- C39
\* the elements of the calls of one kind among the calls on the context
ElementsOf(ops, name) ==
    LET calls == SelectSeq(ops, LAMBDA o : o.op = name)
    IN  [i \in DOMAIN calls |-> calls[i].element]

\* the elements of a list that a draw strokes: the visible boxes and links
Visible(list) ==
    SelectSeq(list, LAMBDA e : heap[e].visible
                               /\ heap[e].kind \in {"Box", "Link"})

\* once update has been called, one update is registered for the next frame
OneUpdatePending == canvas.frames > 0 => canvas.pending = 1

\* a call of update: by the caller, or by the host for a frame
UpdateStep == called'.name = "update" /\ canvas'.frames = canvas.frames + 1

\* the timestamp is at least frameInterval = 1000 / fps after lastFrameTime
IntervalPassed(timestamp) ==
    (timestamp - canvas.lastFrameTime) * canvas.fps >= 1000

\* a call of update leaves one update registered; when the interval has
\* passed it clears the canvas once and draws the registered and then the
\* temporary elements, and its timestamp becomes lastFrameTime; otherwise
\* it draws nothing and lastFrameTime stays
UpdateRedrawsWhenDue ==
    UpdateStep =>
        /\ canvas'.pending = 1
        /\ IF IntervalPassed(called'.arg)
           THEN /\ canvas'.clears = canvas.clears + 1
                /\ canvas'.lastFrameTime = called'.arg
                /\ ElementsOf(canvas'.ops, "clearRect") = <<0>>
                /\ canvas'.ops[1].op = "clearRect"
                /\ ElementsOf(canvas'.ops, "activeDrawStyle") =
                      elements \o temporaryObjects
                /\ ElementsOf(canvas'.ops, "stroke") =
                      Visible(elements) \o Visible(temporaryObjects)
           ELSE /\ canvas'.clears = canvas.clears
                /\ canvas'.lastFrameTime = canvas.lastFrameTime
                /\ canvas'.ops = canvas.ops

\* nothing else draws, registers an update or sets lastFrameTime
OthersDoNotRedraw ==
    ~UpdateStep =>
        /\ canvas'.pending = canvas.pending
        /\ canvas'.clears = canvas.clears
        /\ canvas'.lastFrameTime = canvas.lastFrameTime
        /\ canvas'.ops = canvas.ops

\* C39: after one call of update() exactly one update is registered at any
\* time: every call of update registers one next update, throttled or not;
\* and a call redraws (clearRect, then the registered, then the temporary
\* elements) exactly when its timestamp is at least frameInterval after
\* lastFrameTime, which is the timestamp of the previous redraw (0 before
\* the first)
C39_OneFramePendingRedrawWhenDue ==
    /\ []OneUpdatePending
    /\ [][UpdateRedrawsWhenDue /\ OthersDoNotRedraw]_vars

\* the loop has redrawn a registered and a temporary element twice and was
\* throttled in its latest frame, and an update is registered
C39_Witness ==
    /\ called.name = "update"
    /\ canvas.frames = MaxFrames
    /\ canvas.clears = 2
    /\ canvas.lastFrameTime < canvas.timestamp
    /\ canvas.lastFrameTime > 0
    /\ elements # <<>>
    /\ temporaryObjects # <<>>
    /\ Len(canvas.ops) >= 5
    /\ canvas.pending = 1

\* ---------------------------------------------------------------- C40
\* the strokeStyle activeDrawStyle(e, e.style) sets when Date.now() is date
EffectiveColour(e, date) ==
    activeDrawStyle(Cv, e, StyleOf(heap[e]), date).c.strokeStyle

\* the colour of the claim: the element's own border colour, but 'red' for
\* a flashing element in the first 500 ms of every second
ClaimedColour(e, date) ==
    IF \E i \in DOMAIN flashingElements : flashingElements[i] = e
    THEN IF date % 1000 < 500 THEN "red" ELSE heap[e].borderColor
    ELSE heap[e].borderColor

\* at any time, for every element and every value of Date.now(); 500 ms
\* later a flashing element has the other of the two colours
ColourFollowsFlash ==
    \A e \in DOMAIN heap, date \in Dates :
        /\ EffectiveColour(e, date) = ClaimedColour(e, date)
        /\ Occurrences(flashingElements, e) > 0 =>
              (EffectiveColour(e, date) = "red")
                 # (EffectiveColour(e, date + flashInterval) = "red")

\* a call of activeDrawStyle leaves that colour in context.strokeStyle
StrokeStyleSet ==
    called.name = "activeDrawStyle" =>
        canvas.strokeStyle = ClaimedColour(called.arg, called.arg2)

\* after removeFlash(e) the colour of e is its own at every time
RemoveFlashRestores ==
    called.name = "removeFlash" =>
        \A date \in Dates :
            EffectiveColour(called.arg, date) = heap[called.arg].borderColor

\* C40: the border colour activeDrawStyle sets for an element is its own
\* border colour when the element is not in flashingElements; when it is,
\* the colour is 'red' while Date.now() mod 1000 < 500 and its own colour
\* otherwise, so it alternates every 500 ms; after removeFlash it is the
\* own colour at every time
C40_FlashingBorderColour ==
    ColourFollowsFlash /\ StrokeStyleSet /\ RemoveFlashRestores

\* a flashing blue element is styled in the second half of a second: the
\* strokeStyle is blue, and in the first half it would be red
C40_Witness ==
    /\ called.name = "activeDrawStyle"
    /\ called.arg2 = 1500
    /\ Occurrences(flashingElements, called.arg) > 0
    /\ heap[called.arg].borderColor = "blue"
    /\ canvas.strokeStyle = "blue"
    /\ EffectiveColour(called.arg, 1000) = "red"

====
